---- MODULE Spec2Model ----
(***************************************************************************)
(* Model of the P2P price tracker (package price_tracker):                 *)
(*   domain/filters.py            OfferFilter                              *)
(*   services/price_service.py    PriceService                             *)
(*   services/alert_service.py    AlertService                             *)
(*   services/tracker_service.py  TrackerService                           *)
(*                                                                         *)
(* Conventions.                                                            *)
(*  - A Python Optional is a sequence of length 0 (None) or 1 (a value).   *)
(*  - A price is an integer number of price ticks (0.1 VES in the loop     *)
(*    specification, so that the scenario price 682.5 is the tick 6825).   *)
(*    A percentage change (c - b) / b * 100 is kept as the exact fraction  *)
(*    num / den with num = (c - b) * 100 and den = b; comparisons against  *)
(*    the threshold are done by cross-multiplication.                      *)
(*  - A payment-method name is a sequence of characters, so that           *)
(*    str.strip() and str.lower() are computed, not assumed.               *)
(*  - A marketplace response is a record: status "failed" is fetch_offers  *)
(*    returning None, "null" is a JSON body whose 'data' is null, "ok" is  *)
(*    a body whose 'data' is the list of offers.                           *)
(*                                                                         *)
(*  - Time is an integer number of seconds (datetime.now()).               *)
(*                                                                         *)
(* Specifications.  Each one drives a part of the program and holds the    *)
(* variables of the other parts fixed.                                     *)
(*   Spec      TrackerService.run on the alert state: fetch, rank,         *)
(*             process, with at most one offer per side and the scenario   *)
(*             prices.                                                     *)
(*   SpecRank  PriceService.get_current_prices and                         *)
(*             OfferFilter.find_best_offer driven over raw offer lists.    *)
(*   SpecTwin  two tracker runs fed the same BUY responses and arbitrary   *)
(*             SELL responses (self-composition).                          *)
(*   SpecFilter   the passes of OfferFilter called on offer lists.         *)
(*   SpecTracker  TrackerService.run with its failure counter.             *)
(*   SpecHistory  PriceService.record_price and get_price_at_time on the   *)
(*             price history, with a clock.                                *)
(***************************************************************************)
EXTENDS Integers, Sequences, FiniteSets

VARIABLES
    exclude_methods,          \* PriceService.exclude_methods
    min_amount,               \* PriceService.min_amount
    sudden_change_threshold,  \* AlertService.sudden_change_threshold
    pc,                       \* position of TrackerService.run
    buy_data, sell_data,      \* responses of the two fetch_offers calls
    best_buy_offer,           \* PriceService.best_buy_offer
    best_sell_offer,          \* PriceService.best_sell_offer
    buy_price, sell_price,    \* return value of get_current_prices
    outcome,                  \* return path taken by get_current_prices
    telegram_buy_baseline,    \* AlertService.telegram_buy_baseline
    telegram_sell_baseline,   \* AlertService.telegram_sell_baseline
    sudden_changes,           \* list built by the last check_sudden_change
    alerts_log,               \* lines of alerts_history.log
    fatal_error,              \* run() caught an exception of an iteration
    found,                    \* last call of OfferFilter.find_best_offer
    twin,                     \* second run of SpecTwin
    payment_methods,          \* PriceService.payment_methods
    consecutive_failures,     \* TrackerService.consecutive_failures
    slept,                    \* arguments of the time.sleep calls of the last iteration
    filter_call,              \* last call of a pass of OfferFilter
    replay,                   \* get_current_prices called again on the same responses
    max_history,              \* maxlen of PriceService.price_history
    price_history,            \* PriceService.price_history
    now,                      \* datetime.now()
    lookup,                   \* return value of the last get_price_at_time
    recorded,                 \* record_price calls since the program started
    history_file,             \* content of the price history file
    period_changes,           \* return value of the last calculate_changes
    running,                  \* TrackerService.running
    iteration,                \* TrackerService.iteration
    displayed,                \* last call of the console display in the iteration
    save_calls,               \* calls of HistoryPersistence.save_history made by the tracker
    program,                  \* the entry point invoked: cli.py or price_tracker_prod.py
    args,                     \* parsed command-line arguments
    config_file,              \* content of the JSON configuration file
    config,                   \* the Config object of main()
    main_pc,                  \* position of main()
    exit_code,                \* exit status of the process
    target_file,              \* the price history file as a JSON document
    temp_file,                \* the file "<history file>.tmp"
    disk_pc,                  \* position of HistoryPersistence.save_history
    save_data,                \* `data` built by the running save_history
    load_raised,              \* the last load_history ended in `except Exception`
    last_telegram_message_id,     \* AlertService.last_telegram_message_id
    last_buy_alert_message_id,    \* AlertService.last_buy_alert_message_id
    last_sell_alert_message_id,   \* AlertService.last_sell_alert_message_id
    chat,                     \* the messages of the Telegram chat, by message_id
    client_calls,             \* TelegramClient calls made by the last operation
    update_result,            \* return value of the last send_regular_update
    mock                      \* the MockPriceTracker of test_telegram_alerts.py

vars == <<exclude_methods, min_amount, sudden_change_threshold, pc,
          buy_data, sell_data, best_buy_offer, best_sell_offer,
          buy_price, sell_price, outcome, telegram_buy_baseline,
          telegram_sell_baseline, sudden_changes, alerts_log, fatal_error,
          found, twin, payment_methods, consecutive_failures, slept,
          filter_call, replay, max_history, price_history, now, lookup, recorded,
          history_file, period_changes, running, iteration, displayed,
          save_calls, program, args, config_file, config, main_pc, exit_code,
          target_file, temp_file, disk_pc, save_data, load_raised,
          last_telegram_message_id, last_buy_alert_message_id,
          last_sell_alert_message_id, chat, client_calls, update_result,
          mock>>

\* the state of the OfferFilter and pipeline harnesses, and of the price
\* history
filter_vars == <<filter_call, replay>>

history_vars == <<max_history, price_history, now, lookup, recorded,
                  history_file>>

\* the state of TrackerService.run and of the calls it makes
tracker_vars == <<running, iteration, displayed, save_calls>>

run_vars == <<period_changes, tracker_vars>>

\* the state of main()
main_vars == <<program, args, config_file, config, main_pc, exit_code>>

\* the state of HistoryPersistence and of the two files it uses
disk_vars == <<target_file, temp_file, disk_pc, save_data, load_raised>>

\* the message handles of AlertService and the chat they refer to
notifier_vars == <<last_telegram_message_id, last_buy_alert_message_id,
                   last_sell_alert_message_id, chat, client_calls,
                   update_result>>

\* the state outside the polling services: the entry point, the files, the
\* chat and the test's reference model
ext_vars == <<main_vars, disk_vars, notifier_vars, mock>>

----------------------------------------------------------------------------
(* Python values *)

None == <<>>

Some(x) == <<x>>

Val(o) == o[1]

\* truth value of an Optional[float]: None and 0.0 are false
Truthy(o) == o # None /\ Val(o) # 0

Abs(x) == IF x < 0 THEN 0 - x ELSE x

----------------------------------------------------------------------------
(* Payment-method names: str.strip() and str.lower() *)

UpperCase == <<"A","B","C","D","E","F","G","H","I","J","K","L","M",
               "N","O","P","Q","R","S","T","U","V","W","X","Y","Z">>

LowerCase == <<"a","b","c","d","e","f","g","h","i","j","k","l","m",
               "n","o","p","q","r","s","t","u","v","w","x","y","z">>

\* str.lower() on one character: the table of the letters
LowerOf ==
    [ch \in { UpperCase[i] : i \in 1..26 } |->
        LowerCase[CHOOSE i \in 1..26 : UpperCase[i] = ch]]

Lower(ch) == IF ch \in DOMAIN LowerOf THEN LowerOf[ch] ELSE ch

RECURSIVE LStrip(_)
LStrip(s) ==
    IF s # <<>> /\ Head(s) = " " THEN LStrip(Tail(s)) ELSE s

RECURSIVE RStrip(_)
RStrip(s) ==
    IF s # <<>> /\ s[Len(s)] = " " THEN RStrip(SubSeq(s, 1, Len(s) - 1)) ELSE s

\* mutant: the name is lower-cased but keeps its surrounding blanks
Normalize_CaseOnly(s) == [i \in 1..Len(s) |-> Lower(s[i])]

\* m.strip().lower()
Normalize(s) ==
    LET t == RStrip(LStrip(s)) IN [i \in 1..Len(t) |-> Lower(t[i])]

RecargaPines == <<"R","e","c","a","r","g","a"," ","P","i","n","e","s">>

Banesco == <<"B","a","n","e","s","c","o">>

Mercantil == <<"M", "e", "r", "c", "a", "n", "t", "i", "l">>

----------------------------------------------------------------------------
(* Raw offers of the marketplace response *)

PrivilegeTypes == {"absent", "null", "promoted"}

\* an offer dict: advertiser.nickName, advertiser.monthOrderCount,
\* adv.price, privilegeType, adv.tradeMethods[*].tradeMethodName,
\* adv.minSingleTransAmount, adv.maxSingleTransAmount, adv.surplusAmount;
\* the key adv.dynamicMaxSingleTransAmount is absent
Offer(nick, orders, price, priv, methods, lo, hi) ==
    [nickName |-> nick, monthOrderCount |-> orders, price |-> price,
     privilegeType |-> priv,
     tradeMethods |-> methods, minSingleTransAmount |-> lo,
     maxSingleTransAmount |-> hi, dynamicMaxSingleTransAmount |-> None,
     surplusAmount |-> Some(500)]

\* the offer whose adv.surplusAmount is null
WithNullSurplus(offer) == [offer EXCEPT !.surplusAmount = None]

\* the offer with the key adv.dynamicMaxSingleTransAmount present
WithDynamicMax(offer, dyn) ==
    [offer EXCEPT !.dynamicMaxSingleTransAmount = Some(dyn)]

\* offer.get('privilegeType') is None
PrivilegeIsNone(offer) == offer.privilegeType \in {"absent", "null"}

Failed == [status |-> "failed", data |-> <<>>]

NullData == [status |-> "null", data |-> <<>>]

Ok(offers) == [status |-> "ok", data |-> offers]

\* no pass of OfferFilter has been called yet
NoCall == [pass |-> "none", offers |-> <<>>, methods |-> <<>>, amount |-> 0,
           result |-> <<>>]

\* get_current_prices has not been called a second time
NoReplay == [best_buy_offer |-> None, best_sell_offer |-> None,
             buy |-> None, sell |-> None, outcome |-> "pending"]

\* get_price_at_time has not been called yet
NoLookup == [called |-> FALSE, minutes_ago |-> 0, result |-> None]

\* a command line without options
NoArgs == [interval |-> None, threshold |-> None, min_amount |-> None]

\* no save_history is running
NoData == [last_updated |-> 0, history |-> <<>>]

\* MockPriceTracker.__init__
NoMock == [buy_baseline |-> None, sell_baseline |-> None, alerts |-> <<>>]

\* the console display was not called yet
NoDisplay == [kind |-> "none", buy_price |-> None, sell_price |-> None]

\* calculate_changes was not called yet
NoChanges == [called |-> FALSE, current_buy |-> 0, current_sell |-> 0, result |-> <<>>, raised |-> FALSE]

----------------------------------------------------------------------------
(* Config.from_dict: the filter settings of a configuration dictionary whose
   keys are present (Some) or absent (None) *)

from_dict(data) ==
    [payment_methods |-> IF data.payment_methods = None THEN <<>>
                         ELSE Val(data.payment_methods),
     exclude_methods |-> IF data.exclude_methods = None THEN <<RecargaPines>>
                         ELSE Val(data.exclude_methods),
     min_amount |-> IF data.min_amount = None THEN 0 ELSE Val(data.min_amount)]

----------------------------------------------------------------------------
(* OfferFilter *)

\* mutant: sponsored offers are kept
filter_promoted_Off(offers) == offers

filter_promoted(offers) == SelectSeq(offers, PrivilegeIsNone)

\* the names of an offer that are non-empty, normalised
MethodsNormalized(offer) ==
    LET named == SelectSeq(offer.tradeMethods, LAMBDA m : m # <<>>)
    IN  { Normalize(named[i]) : i \in 1..Len(named) }

filter_by_payment_methods(offers, desired) ==
    IF desired = <<>> THEN offers
    ELSE LET desired_normalized == { Normalize(desired[i]) : i \in 1..Len(desired) }
             has_desired(offer) ==
                 \E method \in desired_normalized : method \in MethodsNormalized(offer)
         IN  SelectSeq(offers, has_desired)

\* mutant: excluded offers are removed from the list while it is iterated,
\* so that the offer after a removed one is skipped
RECURSIVE RemoveWhileIterating(_, _, _)
RemoveWhileIterating(offers, i, exclude_normalized) ==
    IF i > Len(offers) THEN offers
    ELSE IF \E m \in MethodsNormalized(offers[i]) : m \in exclude_normalized
         THEN RemoveWhileIterating(
                  SubSeq(offers, 1, i - 1) \o SubSeq(offers, i + 1, Len(offers)),
                  i + 1, exclude_normalized)
         ELSE RemoveWhileIterating(offers, i + 1, exclude_normalized)

filter_by_exclude_methods_InPlace(offers, exclude) ==
    RemoveWhileIterating(offers, 1,
                         { Normalize(exclude[i]) : i \in 1..Len(exclude) })

filter_by_exclude_methods(offers, exclude) ==
    IF exclude = <<>> THEN offers
    ELSE LET exclude_normalized == { Normalize(exclude[i]) : i \in 1..Len(exclude) }
             has_excluded(offer) ==
                 \E m \in MethodsNormalized(offer) : m \in exclude_normalized
         IN  SelectSeq(offers, LAMBDA offer : ~ has_excluded(offer))

\* mutant: the declared maximum is used even when a dynamic one is given
max_fiat_Declared(offer) == offer.maxSingleTransAmount

\* adv.get("dynamicMaxSingleTransAmount", adv.get("maxSingleTransAmount", 0))
max_fiat(offer) ==
    IF offer.dynamicMaxSingleTransAmount # None
    THEN Val(offer.dynamicMaxSingleTransAmount)
    ELSE offer.maxSingleTransAmount

\* mutant: the bounds of the range are exclusive
filter_by_amount_Exclusive(offers, amount) ==
    IF amount <= 0 THEN offers
    ELSE LET keep(offer) ==
                 /\ offer.price > 0
                 /\ max_fiat(offer) > 0
                 /\ offer.minSingleTransAmount < amount
                 /\ amount < max_fiat(offer)
         IN  SelectSeq(offers, keep)

filter_by_amount(offers, amount) ==
    IF amount <= 0 THEN offers
    ELSE LET keep(offer) ==
                 /\ offer.price > 0
                 /\ max_fiat(offer) > 0
                 /\ offer.minSingleTransAmount <= amount
                 /\ amount <= max_fiat(offer)
         IN  SelectSeq(offers, keep)

find_best_offer(offers, trade_type) ==
    IF offers = <<>> THEN None ELSE Some(offers[1])

----------------------------------------------------------------------------
(* PriceService._find_best_price: min / max keep the first extremal item *)

\* mutant: the first offer is taken for the cheapest
MinByPrice_First(offers, i, best) == offers[1]

RECURSIVE MinByPrice(_, _, _)
MinByPrice(offers, i, best) ==
    IF i > Len(offers) THEN best
    ELSE MinByPrice(offers, i + 1,
                    IF offers[i].price < best.price THEN offers[i] ELSE best)

\* mutant: a later offer at the same price replaces the best so far
RECURSIVE MaxByPrice_Last(_, _, _)
MaxByPrice_Last(offers, i, best) ==
    IF i > Len(offers) THEN best
    ELSE MaxByPrice_Last(offers, i + 1,
                         IF offers[i].price >= best.price THEN offers[i] ELSE best)

RECURSIVE MaxByPrice(_, _, _)
MaxByPrice(offers, i, best) ==
    IF i > Len(offers) THEN best
    ELSE MaxByPrice(offers, i + 1,
                    IF offers[i].price > best.price THEN offers[i] ELSE best)

_find_best_price(offers, trade_type) ==
    IF offers = <<>> THEN None
    ELSE IF trade_type = "BUY"
         THEN Some(MinByPrice(offers, 2, offers[1]))
         ELSE Some(MaxByPrice(offers, 2, offers[1]))

\* the three passes of get_current_prices, in its order
FilterOffers(offers, exclude, amount) ==
    filter_by_amount(
        filter_by_exclude_methods(filter_promoted(offers), exclude), amount)

\* PriceService.get_current_prices after the two fetches: the new
\* best_buy_offer / best_sell_offer, the returned pair and the return path
get_current_prices(bd, sd, old_buy_offer, old_sell_offer, exclude, amount) ==
    LET unchanged(path) ==
            [best_buy_offer |-> old_buy_offer, best_sell_offer |-> old_sell_offer,
             buy |-> None, sell |-> None, outcome |-> path]
    IN
    IF bd.status = "failed" \/ sd.status = "failed" THEN unchanged("fetch_failed")
    ELSE IF bd.status = "null" \/ sd.status = "null" THEN unchanged("parse_error")
    ELSE
    LET buy_offers == FilterOffers(bd.data, exclude, amount)
        sell_offers == FilterOffers(sd.data, exclude, amount)
    IN
    IF buy_offers = <<>> /\ sell_offers = <<>> THEN unchanged("no_offers")
    ELSE
    LET bbo == _find_best_price(buy_offers, "BUY")
        bso == _find_best_price(sell_offers, "SELL")
        best_buy == IF bbo # None THEN Some(Val(bbo).price) ELSE None
        best_sell == IF bso # None THEN Some(Val(bso).price) ELSE None
        buy_invalid == best_buy # None /\ Val(best_buy) <= 0
        sell_invalid == best_sell # None /\ Val(best_sell) <= 0
    IN  [best_buy_offer |-> IF buy_invalid THEN None ELSE bbo,
         best_sell_offer |-> IF sell_invalid THEN None ELSE bso,
         buy |-> IF buy_invalid THEN None ELSE best_buy,
         sell |-> IF sell_invalid THEN None ELSE best_sell,
         outcome |-> "ok"]

----------------------------------------------------------------------------
(* PriceService: the price history, a deque(maxlen=max_history) of
   (timestamp, buy, sell); a price is an Optional, None being the null a
   loaded file may hold *)

Reading(timestamp, buy, sell) ==
    [timestamp |-> timestamp, buy |-> buy, sell |-> sell]

\* deque.append on a deque of the given maxlen: the leftmost entries are
\* dropped while the deque is over its maxlen
DequeAppend(history, entry, maxlen) ==
    LET h == Append(history, entry)
    IN  IF Len(h) > maxlen THEN SubSeq(h, Len(h) - maxlen + 1, Len(h)) ELSE h

\* mutant: a full history keeps its entries and drops the new one
record_price_KeepOldest(history, timestamp, buy, sell, maxlen) ==
    IF Len(history) >= maxlen THEN history
    ELSE Append(history, Reading(timestamp, buy, sell))

\* mutant: the new entry is put in front (appendleft)
record_price_Front(history, timestamp, buy, sell, maxlen) ==
    LET h == <<Reading(timestamp, buy, sell)>> \o history
    IN  IF Len(h) > maxlen THEN SubSeq(h, 1, maxlen) ELSE h

\* PriceService.record_price with timestamp = datetime.now()
record_price(history, timestamp, buy, sell, maxlen) ==
    DequeAppend(history, Reading(timestamp, buy, sell), maxlen)

\* min(price_history, key=distance to target): the first closest entry
RECURSIVE MinByDistance(_, _, _, _)
MinByDistance(history, target, i, closest) ==
    IF i > Len(history) THEN closest
    ELSE MinByDistance(history, target, i + 1,
             IF Abs(history[i].timestamp - target) < Abs(closest.timestamp - target)
             THEN history[i] ELSE closest)

\* mutant: the closest entry is returned however far it is
get_price_at_time_NoWindow(history, time, minutes_ago) ==
    IF history = <<>> THEN None
    ELSE LET closest == MinByDistance(history, time - 60 * minutes_ago, 2,
                                      history[1])
         IN  Some([buy |-> closest.buy, sell |-> closest.sell])

\* PriceService.get_price_at_time at the given time: the returned pair, or
\* None for (None, None)
get_price_at_time(history, time, minutes_ago) ==
    IF history = <<>> THEN None
    ELSE LET target_time == time - 60 * minutes_ago
             closest == MinByDistance(history, target_time, 2, history[1])
         IN  IF Abs(closest.timestamp - target_time) < 120
             THEN Some([buy |-> closest.buy, sell |-> closest.sell])
             ELSE None

\* ((current - old) / old) * 100 as the fraction num / den; raised is the
\* ZeroDivisionError or TypeError of an old price that is 0 or None
PctChange(current, old) ==
    IF old = None THEN [num |-> 0, den |-> 0, raised |-> TRUE]
    ELSE [num |-> (current - Val(old)) * 100, den |-> Val(old),
          raised |-> Val(old) = 0]

\* the periods of calculate_changes, in the order of its loop
Periods == <<[period |-> "15m", minutes |-> 15],
             [period |-> "30m", minutes |-> 30],
             [period |-> "1h", minutes |-> 60]>>

\* mutant: `if old_buy is not None and old_sell is not None`
HasOldPrices_NotNone(old) == old # None /\ Val(old).buy # None /\ Val(old).sell # None

\* `if old_buy and old_sell` on the pair returned by get_price_at_time
HasOldPrices(old) == old # None /\ Truthy(Val(old).buy) /\ Truthy(Val(old).sell)

\* PriceService.calculate_changes at the given time: the entries of the
\* returned dict in insertion order, and whether a division raised
RECURSIVE ChangesFrom(_, _, _, _, _, _)
ChangesFrom(i, history, time, current_buy, current_sell, done) ==
    IF i > Len(Periods) \/ done.raised THEN done
    ELSE LET old == get_price_at_time(history, time, Periods[i].minutes)
         IN  IF HasOldPrices(old)
             THEN LET b == PctChange(current_buy, Val(old).buy)
                      s == PctChange(current_sell, Val(old).sell)
                  IN  ChangesFrom(i + 1, history, time, current_buy, current_sell,
                          IF b.raised \/ s.raised
                          THEN [result |-> done.result, raised |-> TRUE]
                          ELSE [result |-> Append(done.result,
                                    [period |-> Periods[i].period,
                                     buy_change |-> [num |-> b.num, den |-> b.den],
                                     sell_change |-> [num |-> s.num, den |-> s.den],
                                     buy_old |-> Val(Val(old).buy),
                                     sell_old |-> Val(Val(old).sell)]),
                                raised |-> FALSE])
             ELSE ChangesFrom(i + 1, history, time, current_buy, current_sell,
                              done)

calculate_changes(history, time, current_buy, current_sell) ==
    ChangesFrom(1, history, time, current_buy, current_sell,
                [result |-> <<>>, raised |-> FALSE])

\* HistoryPersistence.save_history: the entries written to the file
save_history(history) == Some(history)

\* HistoryPersistence.load_history into the deque at the given time: the
\* deque is cleared, then the entries of the file younger than 24 hours are
\* appended in file order
RECURSIVE LoadEntries(_, _, _, _)
LoadEntries(entries, history, time, maxlen) ==
    IF entries = <<>> THEN history
    ELSE LoadEntries(Tail(entries),
                     IF time - Head(entries).timestamp < 86400
                     THEN DequeAppend(history, Head(entries), maxlen)
                     ELSE history,
                     time, maxlen)

load_history(file, time, maxlen) ==
    IF file = None THEN <<>> ELSE LoadEntries(Val(file), <<>>, time, maxlen)

----------------------------------------------------------------------------
(* AlertService *)

\* ((current - baseline) / baseline) * 100 as the fraction num / den
Pct(current, baseline) == [num |-> (current - baseline) * 100, den |-> baseline]

\* mutant: the threshold test made exclusive
ExceedsThreshold_Strict(change, threshold) ==
    Abs(change.num) > threshold * Abs(change.den)

\* abs(change) >= threshold
ExceedsThreshold(change, threshold) ==
    Abs(change.num) >= threshold * Abs(change.den)

\* trader_info captured from the best offer at the moment of the alert
TraderInfo(offer) ==
    IF offer # None
    THEN Some([trader |-> Val(offer).nickName, orders |-> Val(offer).monthOrderCount])
    ELSE None

\* building trader_info raises: float(adv.get("surplusAmount", 0)) of a null
\* surplusAmount is a TypeError
TraderInfoRaises(offer) == offer # None /\ Val(offer).surplusAmount = None

Alert(type, change, old, new, offer) ==
    [type |-> type, change |-> change, old_price |-> old, new_price |-> new,
     trader_info |-> TraderInfo(offer)]

\* mutant: the baseline follows every observed price
ResetBaseline_Follow(fires, current, baseline) == current

\* mutant: the baseline is never reset
ResetBaseline_Never(fires, current, baseline) == baseline

\* "Reset baseline immediately after detecting change"
ResetBaseline(fires, current, baseline) == IF fires THEN current ELSE baseline

\* AlertService.check_sudden_change on baselines bb / sb. `raised` is the
\* TypeError of formatting None with :.2f in the baseline initialisation, or
\* the one of building trader_info for a change that fires; the assignments
\* made before the raise are kept and the changes found are not sent.
check_sudden_change(bb, sb, current_buy, current_sell, buy_offer, sell_offer, threshold) ==
    LET bb1 == IF bb = None THEN current_buy ELSE bb
        sb1 == IF sb = None THEN current_sell ELSE sb
    IN
    IF bb = None /\ current_buy = None
    THEN [buy_baseline |-> bb1, sell_baseline |-> sb,
          sudden_changes |-> <<>>, raised |-> TRUE]
    ELSE IF sb = None /\ current_sell = None
    THEN [buy_baseline |-> bb1, sell_baseline |-> sb1,
          sudden_changes |-> <<>>, raised |-> TRUE]
    ELSE
    LET buy_fires ==
            /\ Truthy(bb1) /\ Truthy(current_buy)
            /\ ExceedsThreshold(Pct(Val(current_buy), Val(bb1)), threshold)
        sell_fires ==
            /\ Truthy(sb1) /\ Truthy(current_sell)
            /\ ExceedsThreshold(Pct(Val(current_sell), Val(sb1)), threshold)
        buy_changes ==
            IF buy_fires
            THEN <<Alert("BUY", Pct(Val(current_buy), Val(bb1)), Val(bb1),
                         Val(current_buy), buy_offer)>>
            ELSE <<>>
        sell_changes ==
            IF sell_fires
            THEN <<Alert("SELL", Pct(Val(current_sell), Val(sb1)), Val(sb1),
                         Val(current_sell), sell_offer)>>
            ELSE <<>>
    IN  IF buy_fires /\ TraderInfoRaises(buy_offer)
        THEN [buy_baseline |-> bb1, sell_baseline |-> sb1,
              sudden_changes |-> <<>>, raised |-> TRUE]
        ELSE IF sell_fires /\ TraderInfoRaises(sell_offer)
        THEN [buy_baseline |-> ResetBaseline(buy_fires, current_buy, bb1),
              sell_baseline |-> sb1, sudden_changes |-> <<>>, raised |-> TRUE]
        ELSE
        [buy_baseline |-> ResetBaseline(buy_fires, current_buy, bb1),
         sell_baseline |-> ResetBaseline(sell_fires, current_sell, sb1),
         sudden_changes |-> buy_changes \o sell_changes,
         raised |-> FALSE]

\* AlertService.send_alerts / _log_alert: the BUY changes are logged, then
\* the SELL changes
send_alerts(log, changes) ==
    log \o SelectSeq(changes, LAMBDA c : c.type = "BUY")
        \o SelectSeq(changes, LAMBDA c : c.type = "SELL")

----------------------------------------------------------------------------
(* TrackerService *)

\* format_regular_update and display_status build the card of a side under
\* `if buy_price is not None and best_buy_offer`, and
\* float(adv.get("surplusAmount", 0)) raises TypeError there for a null
\* surplusAmount
CardRaises(price, offer) == price # None /\ TraderInfoRaises(offer)

\* mutant: the baseline engine is called when only one price exists
_process_prices_Unguarded(bp, sp, bb, sb, buy_offer, sell_offer, threshold, log) ==
    LET r == check_sudden_change(bb, sb, bp, sp, buy_offer, sell_offer,
                                 threshold)
    IN  [buy_baseline |-> r.buy_baseline, sell_baseline |-> r.sell_baseline,
         sudden_changes |-> r.sudden_changes,
         alerts_log |-> IF r.sudden_changes # <<>>
                        THEN send_alerts(log, r.sudden_changes) ELSE log,
         raised |-> \/ r.raised
                    \/ CardRaises(bp, buy_offer)
                    \/ CardRaises(sp, sell_offer)]

\* min(300, self.consecutive_failures * 10)
extra_wait(failures) == IF failures * 10 < 300 THEN failures * 10 ELSE 300

\* TrackerService._handle_no_offers: the counter after the call and the
\* time.sleep calls made
_handle_no_offers(failures) ==
    [consecutive_failures |-> failures + 1,
     slept |-> IF failures + 1 > 5 THEN <<extra_wait(failures + 1)>> ELSE <<>>]

\* TrackerService._process_prices on the alert state: the baseline engine
\* runs only when both prices exist
_process_prices(bp, sp, bb, sb, buy_offer, sell_offer, threshold, log) ==
    IF bp # None /\ sp # None
    THEN LET r == check_sudden_change(bb, sb, bp, sp, buy_offer, sell_offer,
                                      threshold)
         IN  [buy_baseline |-> r.buy_baseline, sell_baseline |-> r.sell_baseline,
              sudden_changes |-> r.sudden_changes,
              alerts_log |-> IF r.sudden_changes # <<>>
                             THEN send_alerts(log, r.sudden_changes) ELSE log,
              raised |-> \/ r.raised
                         \/ CardRaises(bp, buy_offer)
                         \/ CardRaises(sp, sell_offer)]
    ELSE [buy_baseline |-> bb, sell_baseline |-> sb, sudden_changes |-> <<>>,
          alerts_log |-> log,
          raised |-> CardRaises(bp, buy_offer) \/ CardRaises(sp, sell_offer)]

----------------------------------------------------------------------------
(* Bounds and input domains *)

\* the loop stops polling once alerts_history.log holds MaxLog lines
MaxLog == 3

\* most offers returned by the two fetches of one cycle of SpecRank
MaxOffers == 3

\* sudden_change_threshold values, in percent (Config._validate: 0..100)
Thresholds == {0, 5, 100}

\* scenario prices of test_telegram_alerts.py, in ticks of 0.1 VES
BuyPrices == {6900, 7250, 7300, 7620}

SellPrices == {6500, 6825, 6850, 7200}

LoopOffer(nick, price) ==
    Offer(nick, 120, price, "absent", <<Banesco>>, 40000, 70000)

BuyResponses ==
    {Failed, Ok(<<>>)} \cup { Ok(<<LoopOffer("maker", p)>>) : p \in BuyPrices }

SellResponses ==
    {Failed, Ok(<<>>)} \cup { Ok(<<LoopOffer("taker", p)>>) : p \in SellPrices }

----------------------------------------------------------------------------
(* Initial state: the services as constructed *)

InitServices ==
    /\ pc = "fetch"
    /\ buy_data = Failed
    /\ sell_data = Failed
    /\ best_buy_offer = None
    /\ best_sell_offer = None
    /\ buy_price = None
    /\ sell_price = None
    /\ outcome = "pending"
    /\ telegram_buy_baseline = None
    /\ telegram_sell_baseline = None
    /\ sudden_changes = <<>>
    /\ alerts_log = <<>>
    /\ fatal_error = FALSE
    /\ found = [BUY |-> None, SELL |-> None]
    /\ consecutive_failures = 0
    /\ slept = <<>>
    /\ filter_call = NoCall
    /\ replay = NoReplay
    /\ price_history = <<>>
    /\ now = 0
    /\ lookup = NoLookup
    /\ recorded = 0
    /\ history_file = None
    /\ period_changes = NoChanges
    /\ running = TRUE
    /\ iteration = 0
    /\ displayed = NoDisplay
    /\ save_calls = <<>>
    /\ program = "cli"
    /\ args = NoArgs
    /\ config_file = None
    /\ config = None
    /\ main_pc = "shell"
    /\ exit_code = None
    /\ target_file = None
    /\ temp_file = None
    /\ disk_pc = "idle"
    /\ save_data = NoData
    /\ load_raised = FALSE
    /\ last_telegram_message_id = None
    /\ last_buy_alert_message_id = None
    /\ last_sell_alert_message_id = None
    /\ chat = <<>>
    /\ client_calls = <<>>
    /\ update_result = None
    /\ mock = NoMock

TwinInit ==
    [best_buy_offer |-> None, best_sell_offer |-> None,
     buy_data |-> Failed, sell_data |-> Failed,
     buy_price |-> None, sell_price |-> None,
     telegram_buy_baseline |-> None, telegram_sell_baseline |-> None,
     sudden_changes |-> <<>>, alerts_log |-> <<>>, fatal_error |-> FALSE,
     shared |-> "BUY"]

Init ==
    /\ InitServices
    /\ exclude_methods = <<RecargaPines>>
    /\ payment_methods = <<>>
    /\ min_amount = 0
    /\ max_history = 1000
    /\ sudden_change_threshold \in Thresholds
    /\ twin = TwinInit

----------------------------------------------------------------------------
(* One iteration of TrackerService.run *)

\* run(): a new iteration starts and get_current_prices issues its two
\* fetch_offers calls
FetchStep(buy_response, sell_response) ==
    /\ pc = "fetch"
    /\ Len(alerts_log) < MaxLog
    /\ buy_data' = buy_response
    /\ sell_data' = sell_response
    /\ buy_price' = None
    /\ sell_price' = None
    /\ outcome' = "pending"
    /\ sudden_changes' = <<>>
    /\ pc' = "rank"
    /\ UNCHANGED <<exclude_methods, min_amount, sudden_change_threshold,
                   best_buy_offer, best_sell_offer, telegram_buy_baseline,
                   telegram_sell_baseline, alerts_log, fatal_error, found,
                   payment_methods, filter_vars, history_vars, run_vars,
                   ext_vars>>

\* get_current_prices from the responses to its return
RankStep ==
    /\ pc = "rank"
    /\ LET r == get_current_prices(buy_data, sell_data, best_buy_offer,
                                   best_sell_offer, exclude_methods, min_amount)
       IN  /\ best_buy_offer' = r.best_buy_offer
           /\ best_sell_offer' = r.best_sell_offer
           /\ buy_price' = r.buy
           /\ sell_price' = r.sell
           /\ outcome' = r.outcome
    /\ pc' = "process"
    /\ UNCHANGED <<exclude_methods, min_amount, sudden_change_threshold,
                   buy_data, sell_data, telegram_buy_baseline,
                   telegram_sell_baseline, sudden_changes, alerts_log,
                   fatal_error, found, payment_methods, filter_vars,
                   history_vars, run_vars,
                   ext_vars>>

\* run(): at least one price is available, _process_prices; an exception
\* ends the loop
ProcessStep ==
    /\ pc = "process"
    /\ buy_price # None \/ sell_price # None
    /\ LET r == _process_prices(buy_price, sell_price, telegram_buy_baseline,
                                telegram_sell_baseline, best_buy_offer,
                                best_sell_offer, sudden_change_threshold,
                                alerts_log)
       IN  /\ telegram_buy_baseline' = r.buy_baseline
           /\ telegram_sell_baseline' = r.sell_baseline
           /\ sudden_changes' = r.sudden_changes
           /\ alerts_log' = r.alerts_log
           /\ fatal_error' = r.raised
           /\ pc' = IF r.raised THEN "stopped" ELSE "fetch"
    /\ UNCHANGED <<exclude_methods, min_amount, sudden_change_threshold,
                   buy_data, sell_data, best_buy_offer, best_sell_offer,
                   buy_price, sell_price, outcome, found, payment_methods,
                   filter_vars, history_vars, run_vars,
                   ext_vars>>

\* run(): no price at all, _handle_no_offers
NoOffersStep ==
    /\ pc = "process"
    /\ buy_price = None /\ sell_price = None
    /\ pc' = "fetch"
    /\ UNCHANGED <<exclude_methods, min_amount, sudden_change_threshold,
                   buy_data, sell_data, best_buy_offer, best_sell_offer,
                   buy_price, sell_price, outcome, telegram_buy_baseline,
                   telegram_sell_baseline, sudden_changes, alerts_log,
                   fatal_error, found, payment_methods, filter_vars,
                   history_vars, run_vars,
                   ext_vars>>

FetchOffers ==
    /\ pc = "fetch"
    /\ \E b \in BuyResponses, s \in SellResponses : FetchStep(b, s)
    /\ UNCHANGED <<twin, consecutive_failures, slept>>

GetCurrentPrices == RankStep /\ UNCHANGED <<twin, consecutive_failures, slept>>

ProcessPrices == ProcessStep /\ UNCHANGED <<twin, consecutive_failures, slept>>

HandleNoOffers == NoOffersStep /\ UNCHANGED <<twin, consecutive_failures, slept>>

Next == FetchOffers \/ GetCurrentPrices \/ ProcessPrices \/ HandleNoOffers

Spec == Init /\ [][Next]_vars

----------------------------------------------------------------------------
(* PriceService and OfferFilter driven over raw offer lists: one call of
   get_current_prices, or of find_best_offer, on every pair of responses
   holding at most MaxOffers offers. *)

\* the month order count of the makers: a tie at the best price is not
\* broken by it
Orders(nick) == IF nick = "ana" THEN 10 ELSE 500

InRange(nick, price, priv, methods) ==
    Offer(nick, Orders(nick), price, priv, methods, 40000, 70000)

\* offers of two makers at every price (price 0 is a data fault), sponsored
\* and null-flagged offers, offers paid with the denied method among
\* others, offers whose range [50000, 55000] does not hold 60000
RankOffers ==
    { InRange(n, p, "absent", <<Banesco>>) : n \in {"ana", "bob"}, p \in {0, 1, 2} }
    \cup { InRange("cat", p, t, <<Banesco>>) : p \in {1, 2}, t \in {"null", "promoted"} }
    \cup { InRange("dan", p, "absent", <<Banesco, RecargaPines>>) : p \in {1, 2} }
    \cup { Offer("eve", 500, p, "absent", <<Banesco>>, 50000, 55000) : p \in {1, 2} }

\* a fetch that failed or returned a null body, the other one being empty
FaultyResponses ==
    { <<Failed, Ok(<<>>)>>, <<Ok(<<>>), Failed>>,
      <<NullData, Ok(<<>>)>>, <<Ok(<<>>), NullData>> }

\* configuration dictionaries: a deny-list that does not name the safety
\* entry, an empty deny-list with an allow-list, and the defaults with a
\* desired amount
ConfigData ==
    { [exclude_methods |-> Some(<<Mercantil>>), payment_methods |-> None,
       min_amount |-> None],
      [exclude_methods |-> Some(<<>>), payment_methods |-> Some(<<Mercantil>>),
       min_amount |-> None],
      [exclude_methods |-> None, payment_methods |-> None,
       min_amount |-> Some(60000)] }

InitRank ==
    /\ InitServices
    /\ \E data \in ConfigData :
          /\ exclude_methods = from_dict(data).exclude_methods
          /\ payment_methods = from_dict(data).payment_methods
          /\ min_amount = from_dict(data).min_amount
    /\ max_history = 1000
    /\ sudden_change_threshold = 5
    /\ twin = TwinInit

RankFetchOffers ==
    /\ pc = "fetch"
    /\ \/ \E r \in FaultyResponses : FetchStep(r[1], r[2])
       \/ \E i \in 0..MaxOffers : \E j \in 0..(MaxOffers - i) :
             \E b \in [1..i -> RankOffers], s \in [1..j -> RankOffers] :
                FetchStep(Ok(b), Ok(s))
    /\ UNCHANGED <<twin, consecutive_failures, slept>>

\* direct calls of OfferFilter.find_best_offer on the offers of the two
\* responses
FindBestOffer ==
    /\ pc = "rank"
    /\ buy_data.status = "ok" /\ sell_data.status = "ok"
    /\ found' = [BUY |-> find_best_offer(buy_data.data, "BUY"),
                 SELL |-> find_best_offer(sell_data.data, "SELL")]
    /\ pc' = "returned"
    /\ UNCHANGED <<exclude_methods, min_amount, sudden_change_threshold,
                   buy_data, sell_data, best_buy_offer, best_sell_offer,
                   buy_price, sell_price, outcome, telegram_buy_baseline,
                   telegram_sell_baseline, sudden_changes, alerts_log,
                   fatal_error, twin, payment_methods, consecutive_failures,
                   slept, filter_vars, history_vars, run_vars,
                   ext_vars>>

\* the next cycle's get_current_prices when the marketplace returns the same
\* two responses again: replay holds what the second call selects and
\* returns, the other variables what the first call did
ReplayGetCurrentPrices ==
    /\ pc = "process"
    /\ replay' = get_current_prices(buy_data, sell_data, best_buy_offer,
                                    best_sell_offer, exclude_methods, min_amount)
    /\ pc' = "replayed"
    /\ UNCHANGED <<exclude_methods, min_amount, sudden_change_threshold,
                   buy_data, sell_data, best_buy_offer, best_sell_offer,
                   buy_price, sell_price, outcome, telegram_buy_baseline,
                   telegram_sell_baseline, sudden_changes, alerts_log,
                   fatal_error, found, twin, payment_methods,
                   consecutive_failures, slept, filter_call, history_vars,
                   run_vars,
                   ext_vars>>

NextRank ==
    \/ RankFetchOffers
    \/ GetCurrentPrices
    \/ FindBestOffer
    \/ ReplayGetCurrentPrices

SpecRank == InitRank /\ [][NextRank]_vars

----------------------------------------------------------------------------
(* Two runs of the loop side by side. The variables hold the first run, twin
   the second; twin.shared is the side whose responses are the same in both
   runs, the responses of the other side are unrelated. *)

TwinBuyResponses == {Ok(<<>>), Ok(<<LoopOffer("maker", 6900)>>),
                     Ok(<<LoopOffer("maker", 7250)>>)}

TwinSellResponses == {Ok(<<>>), Ok(<<LoopOffer("taker", 6500)>>),
                      Ok(<<LoopOffer("taker", 6825)>>)}

InitTwin ==
    /\ InitServices
    /\ exclude_methods = <<RecargaPines>>
    /\ payment_methods = <<>>
    /\ min_amount = 0
    /\ max_history = 1000
    /\ sudden_change_threshold = 5
    /\ \E side \in {"BUY", "SELL"} : twin = [TwinInit EXCEPT !.shared = side]

\* both runs start the same iteration
TwinFetchOffers ==
    /\ pc = "fetch"
    /\ Len(twin.alerts_log) < MaxLog
    /\ \E b1 \in TwinBuyResponses, s1 \in TwinSellResponses,
          b2 \in TwinBuyResponses, s2 \in TwinSellResponses :
          /\ twin.shared = "BUY" => b2 = b1
          /\ twin.shared = "SELL" => s2 = s1
          /\ FetchStep(b1, s1)
          /\ twin' = [twin EXCEPT !.buy_data = b2, !.sell_data = s2,
                                  !.buy_price = None, !.sell_price = None,
                                  !.sudden_changes = <<>>]
    /\ UNCHANGED <<consecutive_failures, slept>>

TwinGetCurrentPrices ==
    /\ RankStep
    /\ LET r == get_current_prices(twin.buy_data, twin.sell_data,
                                   twin.best_buy_offer, twin.best_sell_offer,
                                   exclude_methods, min_amount)
       IN  twin' = [twin EXCEPT !.best_buy_offer = r.best_buy_offer,
                                !.best_sell_offer = r.best_sell_offer,
                                !.buy_price = r.buy, !.sell_price = r.sell]
    /\ UNCHANGED <<consecutive_failures, slept>>

\* both runs finish the iteration, each with _process_prices or
\* _handle_no_offers
TwinProcessPrices ==
    /\ ProcessStep \/ NoOffersStep
    /\ IF twin.buy_price # None \/ twin.sell_price # None
       THEN LET r == _process_prices(twin.buy_price, twin.sell_price,
                                     twin.telegram_buy_baseline,
                                     twin.telegram_sell_baseline,
                                     twin.best_buy_offer, twin.best_sell_offer,
                                     sudden_change_threshold, twin.alerts_log)
            IN  twin' = [twin EXCEPT !.telegram_buy_baseline = r.buy_baseline,
                                     !.telegram_sell_baseline = r.sell_baseline,
                                     !.sudden_changes = r.sudden_changes,
                                     !.alerts_log = r.alerts_log,
                                     !.fatal_error = r.raised]
       ELSE twin' = twin
    /\ UNCHANGED <<consecutive_failures, slept>>

NextTwin == TwinFetchOffers \/ TwinGetCurrentPrices \/ TwinProcessPrices

SpecTwin == InitTwin /\ [][NextTwin]_vars

----------------------------------------------------------------------------
(* Vocabulary of the properties *)

Sides == {"BUY", "SELL"}

BaselineOf(side) ==
    IF side = "BUY" THEN telegram_buy_baseline ELSE telegram_sell_baseline

CurrentOf(side) == IF side = "BUY" THEN buy_price ELSE sell_price

\* the alerts of one side in a list of alerts
OfSide(alerts, side) == SelectSeq(alerts, LAMBDA a : a.type = side)

\* the price c is at least t percent of b away from b
MovedAtLeast(c, b, t) == Abs(c - b) * 100 >= t * Abs(b)

\* the value (c - b) / b * 100
ChangeOf(c, b) == [num |-> (c - b) * 100, den |-> b]

\* a step of the loop in which _process_prices calls check_sudden_change
EngineStep ==
    /\ pc = "process" /\ pc' # "process"
    /\ buy_price # None /\ sell_price # None

\* a step of the loop that ends a poll cycle
CycleStep == pc = "process" /\ pc' # "process"

----------------------------------------------------------------------------
(* Alert baseline engine *)

\* C1: when check_sudden_change runs on a side whose baseline b is set and
\* whose current price is c, and |(c - b) / b * 100| >= threshold, the call
\* builds exactly one alert of that side, carrying old_price b, new_price c
\* and change (c - b) / b * 100, and the side's baseline is c after the
\* call, so that the change of c against the new baseline is 0.
C1_AlertResetsBaseline ==
    [][EngineStep =>
        \A side \in Sides :
            LET b == BaselineOf(side)
                c == CurrentOf(side)
            IN  (b # None /\ MovedAtLeast(Val(c), Val(b), sudden_change_threshold))
                => /\ Len(OfSide(sudden_changes', side)) = 1
                   /\ LET a == OfSide(sudden_changes', side)[1]
                      IN  /\ a.change = ChangeOf(Val(c), Val(b))
                          /\ a.old_price = Val(b)
                          /\ a.new_price = Val(c)
                   /\ BaselineOf(side)' = c
                   /\ ChangeOf(Val(c), Val(BaselineOf(side)')).num = 0
                   /\ OfSide(alerts_log', side)
                        = OfSide(alerts_log, side) \o OfSide(sudden_changes', side)
    ]_vars

\* C1 witness: the BUY side has just alerted on 690.0 -> 725.0 at 5 percent
\* and its baseline is 725.0
C1_Witness ==
    /\ pc = "fetch"
    /\ sudden_change_threshold = 5
    /\ OfSide(sudden_changes, "BUY") # <<>>
    /\ OfSide(sudden_changes, "BUY")[1].old_price = 6900
    /\ OfSide(sudden_changes, "BUY")[1].new_price = 7250
    /\ telegram_buy_baseline = Some(7250)

\* C2: when check_sudden_change runs on a side whose baseline b is set and
\* the current price c has |(c - b) / b * 100| < threshold, no alert of that
\* side is built or logged and the baseline is still b after the call.
C2_BelowThresholdKeepsBaseline ==
    [][EngineStep =>
        \A side \in Sides :
            LET b == BaselineOf(side)
                c == CurrentOf(side)
            IN  (b # None /\ ~ MovedAtLeast(Val(c), Val(b), sudden_change_threshold))
                => /\ OfSide(sudden_changes', side) = <<>>
                   /\ OfSide(alerts_log', side) = OfSide(alerts_log, side)
                   /\ BaselineOf(side)' = b
    ]_vars

\* C2 witness: after the alert at 725.0 the BUY price 730.0 (+0.69 percent)
\* was evaluated: no BUY alert, baseline still 725.0
C2_Witness ==
    /\ pc = "fetch"
    /\ sudden_change_threshold = 5
    /\ buy_price = Some(7300) /\ sell_price # None
    /\ telegram_buy_baseline = Some(7250)
    /\ OfSide(sudden_changes, "BUY") = <<>>

\* C3: for every accepted threshold, the call of check_sudden_change that
\* sees a side for the first time (baseline unset) sets the baseline to the
\* observed price and builds no alert of that side.
C3_FirstObservationSilent ==
    [][EngineStep =>
        \A side \in Sides :
            BaselineOf(side) = None
            => /\ BaselineOf(side)' = CurrentOf(side)
               /\ OfSide(sudden_changes', side) = <<>>
    ]_vars

\* C4: in alerts_history.log, consecutive alerts of a side chain (the later
\* old_price is the earlier new_price) and the later new_price is at least
\* threshold percent away from the earlier one; the baseline of a side that
\* has alerted is the new_price of its last alert; an observation strictly
\* within threshold percent of that price adds no alert of the side.
C4_LogChains ==
    \A side \in Sides :
        LET log == OfSide(alerts_log, side)
        IN  /\ \A i \in 1..(Len(log) - 1) :
                  /\ log[i + 1].old_price = log[i].new_price
                  /\ MovedAtLeast(log[i + 1].new_price, log[i].new_price,
                                  sudden_change_threshold)
            /\ log # <<>> => BaselineOf(side) = Some(log[Len(log)].new_price)

C4_QuietBetweenAlerts ==
    EngineStep =>
        \A side \in Sides :
            LET log == OfSide(alerts_log, side)
            IN  (/\ log # <<>>
                 /\ ~ MovedAtLeast(Val(CurrentOf(side)), log[Len(log)].new_price,
                                   sudden_change_threshold))
                => OfSide(alerts_log', side) = log

C4_NextAlertNeedsFullMove == []C4_LogChains /\ [][C4_QuietBetweenAlerts]_vars

\* C4 witness: threshold 5, BUY alerted 690.0 -> 725.0, then 725.0 -> 762.0
C4_Witness ==
    LET log == OfSide(alerts_log, "BUY")
    IN  /\ sudden_change_threshold = 5
        /\ Len(log) = 2
        /\ log[1].old_price = 6900 /\ log[1].new_price = 7250
        /\ log[2].old_price = 7250 /\ log[2].new_price = 7620

\* C5: a poll cycle in which a side has no current price leaves that side's
\* baseline as it was, builds and logs no alert of that side, and raises no
\* error.
C5_AbsentSideSkipped ==
    [][CycleStep =>
        \A side \in Sides :
            CurrentOf(side) = None
            => /\ BaselineOf(side)' = BaselineOf(side)
               /\ OfSide(sudden_changes', side) = <<>>
               /\ OfSide(alerts_log', side) = OfSide(alerts_log, side)
               /\ ~ fatal_error'
    ]_vars

\* C5 witness: a processed cycle with a SELL price and no BUY price, the BUY
\* baseline being set
C5_Witness ==
    /\ pc = "fetch"
    /\ outcome = "ok"
    /\ buy_price = None /\ sell_price # None
    /\ telegram_buy_baseline # None

\* C6: the sides are evaluated independently: two runs that receive the
\* same responses on one side, whatever they receive on the other side, hold
\* the same baseline and have logged the same alerts for that side.
C6_SidesIndependent ==
    LET side == twin.shared
        twin_baseline == IF side = "BUY" THEN twin.telegram_buy_baseline
                         ELSE twin.telegram_sell_baseline
    IN  /\ BaselineOf(side) = twin_baseline
        /\ OfSide(alerts_log, side) = OfSide(twin.alerts_log, side)

----------------------------------------------------------------------------
(* Offer filter and ranker *)

\* get_current_prices has ranked the offers of this cycle's responses
Ranked == pc = "process" /\ outcome = "ok"

RawOf(side) == IF side = "BUY" THEN buy_data.data ELSE sell_data.data

BestOf(side) == IF side = "BUY" THEN best_buy_offer ELSE best_sell_offer

\* price p is at least as good as price q for the side
AsGoodAs(side, p, q) == IF side = "BUY" THEN p <= q ELSE p >= q

\* the offer passes the three filter passes on its own
SurvivesAlone(offer) ==
    FilterOffers(<<offer>>, exclude_methods, min_amount) = <<offer>>

\* positions of the raw list whose offer survives
SurvivorsAt(side) ==
    { i \in 1..Len(RawOf(side)) : SurvivesAlone(RawOf(side)[i]) }

\* C7: the offer selected for a side is a surviving offer of this cycle's raw
\* list and no surviving offer has a strictly better price (lower for BUY,
\* higher for SELL); the returned price is its price.
C7_SelectedIsBestSurvivor ==
    Ranked =>
        \A side \in Sides :
            BestOf(side) # None =>
                LET best == Val(BestOf(side))
                    raw == RawOf(side)
                    surviving == SurvivorsAt(side)
                IN  /\ \E i \in surviving : raw[i] = best
                    /\ \A i \in surviving :
                          AsGoodAs(side, best.price, raw[i].price)
                    /\ CurrentOf(side) = Some(best.price)

\* C7 witness: a sponsored offer at price 1 precedes the organic offers at
\* prices 2 and 1 in the BUY list, a denied one at price 2 leads the SELL list
C7_Witness ==
    /\ Ranked
    /\ Len(buy_data.data) = 3
    /\ buy_data.data[1].privilegeType = "promoted" /\ buy_data.data[1].price = 1
    /\ buy_data.data[2].price = 2
    /\ best_buy_offer # None /\ Val(best_buy_offer) = buy_data.data[3]
    /\ Val(best_buy_offer).price = 1

\* C8: find_best_offer returns an offer of lowest price of the list for BUY,
\* of highest price for SELL, whatever the order of the list, and no offer
\* for an empty list.
C8_FindBestOfferIsExtremal ==
    pc = "returned" =>
        \A side \in Sides :
            IF RawOf(side) = <<>> THEN found[side] = None
            ELSE /\ found[side] # None
                 /\ \E i \in 1..Len(RawOf(side)) : RawOf(side)[i] = Val(found[side])
                 /\ \A i \in 1..Len(RawOf(side)) :
                       AsGoodAs(side, Val(found[side]).price, RawOf(side)[i].price)

\* C9: among the surviving offers at the best price the selected one is the
\* one that comes first in the raw list, whatever the makers' order counts.
C9_FirstOfTiesWins ==
    Ranked =>
        \A side \in Sides :
            BestOf(side) # None =>
                LET raw == RawOf(side)
                    surviving == SurvivorsAt(side)
                    ties == { i \in surviving :
                                \A j \in surviving :
                                    AsGoodAs(side, raw[i].price, raw[j].price) }
                IN  /\ ties # {}
                    /\ \A i \in ties :
                          (\A j \in ties : i <= j) => Val(BestOf(side)) = raw[i]

\* C9 witness: bob (500 orders) and ana (10 orders) both sell at the best price
\* 2 and ana is listed first
C9_Witness ==
    /\ Ranked
    /\ Len(sell_data.data) = 3
    /\ sell_data.data[1].price = 1
    /\ sell_data.data[2].nickName = "ana" /\ sell_data.data[2].price = 2
    /\ sell_data.data[3].nickName = "bob" /\ sell_data.data[3].price = 2
    /\ SurvivorsAt("SELL") = {1, 2, 3}
    /\ best_sell_offer = Some(sell_data.data[2])

\* the offers of a list whose sponsor flag is absent or null, in list order
RECURSIVE Unflagged(_)
Unflagged(offers) ==
    IF offers = <<>> THEN <<>>
    ELSE (IF Head(offers).privilegeType = "promoted" THEN <<>> ELSE <<Head(offers)>>)
         \o Unflagged(Tail(offers))

\* C10: the selected offer of a side never carries a sponsor flag, and the
\* promoted-ad pass keeps exactly the offers whose flag is absent or null,
\* unchanged and in order.
C10_PromotedNeverSelected ==
    /\ \A side \in Sides :
          (BestOf(side) # None => Val(BestOf(side)).privilegeType # "promoted")
    /\ \A side \in Sides :
          filter_promoted(RawOf(side)) = Unflagged(RawOf(side))

\* C10 witness: the cheapest BUY offer is sponsored, the next one has a null
\* flag and is selected
C10_Witness ==
    /\ Ranked
    /\ Len(buy_data.data) = 2
    /\ buy_data.data[1].privilegeType = "promoted" /\ buy_data.data[1].price = 1
    /\ buy_data.data[2].privilegeType = "null" /\ buy_data.data[2].price = 2
    /\ best_buy_offer = Some(buy_data.data[2])

----------------------------------------------------------------------------
(* The passes of OfferFilter called on their own: one call of one pass on
   every list of at most MaxFilterLen offers. *)

\* longest offer list handed to a pass
MaxFilterLen == 3

\* the variables of the polling loop, which a call of a pass leaves alone
loop_vars == <<exclude_methods, min_amount, sudden_change_threshold, pc,
               buy_data, sell_data, best_buy_offer, best_sell_offer,
               buy_price, sell_price, outcome, telegram_buy_baseline,
               telegram_sell_baseline, sudden_changes, alerts_log,
               fatal_error, found, twin, payment_methods,
               consecutive_failures, slept>>

\* the state of the polling services
svc_vars == <<loop_vars, filter_vars, history_vars, run_vars>>

\* spellings of the two method names as the marketplace or the user may
\* write them
RecargaPinesPadded == <<" ","R","E","C","A","R","G","A"," ","p","i","n","e","s"," ">>

BanescoLower == <<"b","a","n","e","s","c","o"," ">>

PlainOffer(nick, methods) ==
    Offer(nick, 120, 1, "absent", methods, 40000, 70000)

\* offers that differ in their payment methods: one method, the denied method
\* only, the denied method among others, other spellings, a method entry
\* without a name, no method at all
MethodOffers ==
    { PlainOffer("ana", <<Banesco>>),
      PlainOffer("bob", <<RecargaPines>>),
      PlainOffer("cat", <<Banesco, RecargaPines>>),
      PlainOffer("dan", <<RecargaPinesPadded>>),
      PlainOffer("eve", <<BanescoLower, <<>> >>),
      PlainOffer("fay", <<Mercantil>>),
      PlainOffer("gus", <<>>) }

\* deny-lists and allow-lists
MethodLists ==
    { <<>>, <<RecargaPines>>, <<RecargaPinesPadded>>, <<Banesco>>,
      <<BanescoLower, Mercantil>> }

RangeOffer(nick, price, lo, hi) ==
    Offer(nick, 120, price, "absent", <<Banesco>>, lo, hi)

\* offers that differ in their capacity range: around the amount 60000, with
\* a bound equal to it, with a non-positive maximum, with a dynamic maximum
\* that replaces the declared one, and with the fault price 0
AmountOffers ==
    { RangeOffer("ana", 1, 40000, 70000),
      RangeOffer("bob", 1, 50000, 55000),
      RangeOffer("cat", 1, 60000, 70000),
      RangeOffer("dan", 1, 40000, 60000),
      RangeOffer("eve", 1, 65000, 70000),
      RangeOffer("fay", 1, 0, 0),
      RangeOffer("gus", 1, -10, -1),
      RangeOffer("hal", 0, 40000, 70000),
      WithDynamicMax(RangeOffer("ivy", 1, 40000, 70000), 55000),
      WithDynamicMax(RangeOffer("jon", 1, 40000, 0), 70000),
      WithDynamicMax(RangeOffer("kim", 1, 40000, 70000), 0) }

\* desired amounts
Amounts == {-1, 0, 60000}

FlagOffers ==
    { Offer("ana", 120, 1, t, <<Banesco>>, 40000, 70000) : t \in PrivilegeTypes }

ListsOf(S) == UNION { [1..n -> S] : n \in 0..MaxFilterLen }

InitFilter ==
    /\ InitServices
    /\ exclude_methods = <<RecargaPines>>
    /\ payment_methods = <<>>
    /\ min_amount = 0
    /\ max_history = 1000
    /\ sudden_change_threshold = 5
    /\ twin = TwinInit

CallFilterPromoted ==
    /\ filter_call = NoCall
    /\ \E offers \in ListsOf(FlagOffers) :
          filter_call' = [pass |-> "promoted", offers |-> offers,
                          methods |-> <<>>, amount |-> 0,
                          result |-> filter_promoted(offers)]
    /\ UNCHANGED <<loop_vars, replay, history_vars, run_vars,
                   ext_vars>>

CallFilterByExcludeMethods ==
    /\ filter_call = NoCall
    /\ \E offers \in ListsOf(MethodOffers), exclude \in MethodLists :
          filter_call' = [pass |-> "exclude", offers |-> offers,
                          methods |-> exclude, amount |-> 0,
                          result |-> filter_by_exclude_methods(offers, exclude)]
    /\ UNCHANGED <<loop_vars, replay, history_vars, run_vars,
                   ext_vars>>

CallFilterByPaymentMethods ==
    /\ filter_call = NoCall
    /\ \E offers \in ListsOf(MethodOffers), desired \in MethodLists :
          filter_call' = [pass |-> "payment", offers |-> offers,
                          methods |-> desired, amount |-> 0,
                          result |-> filter_by_payment_methods(offers, desired)]
    /\ UNCHANGED <<loop_vars, replay, history_vars, run_vars,
                   ext_vars>>

CallFilterByAmount ==
    /\ filter_call = NoCall
    /\ \E offers \in ListsOf(AmountOffers), amount \in Amounts :
          filter_call' = [pass |-> "amount", offers |-> offers,
                          methods |-> <<>>, amount |-> amount,
                          result |-> filter_by_amount(offers, amount)]
    /\ UNCHANGED <<loop_vars, replay, history_vars, run_vars,
                   ext_vars>>

NextFilter ==
    \/ CallFilterPromoted
    \/ CallFilterByExcludeMethods
    \/ CallFilterByPaymentMethods
    \/ CallFilterByAmount

SpecFilter == InitFilter /\ [][NextFilter]_vars

----------------------------------------------------------------------------
(* TrackerService.run with its failure counter: the loop of Spec, fed a few
   responses, with the bookkeeping of _process_prices and
   _handle_no_offers. *)

\* the loop stops polling once consecutive_failures reaches MaxFailures
MaxFailures == 31

\* Config.check_interval, in seconds
check_interval == 30

TrackerBuyResponses ==
    {Failed, Ok(<<>>), Ok(<<LoopOffer("maker", 6900)>>),
     Ok(<<LoopOffer("maker", 7250)>>)}

TrackerSellResponses ==
    {Failed, Ok(<<>>), Ok(<<LoopOffer("taker", 6500)>>),
     Ok(<<LoopOffer("taker", 6825)>>)}

InitTracker ==
    /\ InitServices
    /\ exclude_methods = <<RecargaPines>>
    /\ payment_methods = <<>>
    /\ min_amount = 0
    /\ max_history = 1000
    /\ sudden_change_threshold = 100
    /\ twin = TwinInit

TrackerFetchOffers ==
    /\ pc = "fetch"
    /\ consecutive_failures < MaxFailures
    /\ \E b \in TrackerBuyResponses, s \in TrackerSellResponses : FetchStep(b, s)
    /\ UNCHANGED <<twin, consecutive_failures, slept>>

\* _process_prices: the counter is reset when both prices exist; run() then
\* sleeps check_interval
TrackerProcessPrices ==
    /\ ProcessStep
    /\ consecutive_failures' =
          IF buy_price # None /\ sell_price # None THEN 0
          ELSE consecutive_failures
    /\ slept' = <<check_interval>>
    /\ UNCHANGED twin

\* _handle_no_offers: one more failure and, above 5, the extra wait; run()
\* then sleeps check_interval
TrackerHandleNoOffers ==
    /\ NoOffersStep
    /\ LET r == _handle_no_offers(consecutive_failures)
       IN  /\ consecutive_failures' = r.consecutive_failures
           /\ slept' = r.slept \o <<check_interval>>
    /\ UNCHANGED twin

NextTracker ==
    \/ TrackerFetchOffers
    \/ GetCurrentPrices
    \/ TrackerProcessPrices
    \/ TrackerHandleNoOffers

SpecTracker == InitTracker /\ [][NextTracker]_vars

----------------------------------------------------------------------------
(* The price history: record_price, get_price_at_time, save_history and
   load_history called as time passes. *)

\* datetime.now() does not pass MaxTime seconds
MaxTime == 240

\* most record_price calls of one program run
MaxRecords == 7

\* seconds between two calls
TickSteps == {30, 90}

\* lookbacks, in minutes (calculate_changes uses 15, 30 and 60)
MinutesAgo == {0, 2, 15}

InitHistory ==
    /\ InitServices
    /\ exclude_methods = <<RecargaPines>>
    /\ payment_methods = <<>>
    /\ min_amount = 0
    /\ max_history \in {0, 1, 2}
    /\ sudden_change_threshold = 5
    /\ twin = TwinInit

\* time passes
Tick ==
    /\ \E d \in TickSteps : now + d <= MaxTime /\ now' = now + d
    /\ lookup' = NoLookup
    /\ UNCHANGED <<loop_vars, filter_vars, run_vars, max_history, price_history,
                   recorded, history_file,
                   ext_vars>>

RecordPrice ==
    /\ recorded < MaxRecords
    /\ \E b \in {6900, 7250} :
          price_history' = record_price(price_history, now, Some(b),
                                        Some(6500), max_history)
    /\ recorded' = recorded + 1
    /\ lookup' = NoLookup
    /\ UNCHANGED <<loop_vars, filter_vars, run_vars, max_history, now, history_file,
                   ext_vars>>

GetPriceAtTime ==
    /\ \E m \in MinutesAgo :
          lookup' = [called |-> TRUE, minutes_ago |-> m,
                     result |-> get_price_at_time(price_history, now, m)]
    /\ UNCHANGED <<loop_vars, filter_vars, run_vars, max_history, price_history, now,
                   recorded, history_file,
                   ext_vars>>

SaveHistory ==
    /\ history_file' = save_history(price_history)
    /\ lookup' = NoLookup
    /\ UNCHANGED <<loop_vars, filter_vars, run_vars, max_history, price_history, now,
                   recorded,
                   ext_vars>>

\* the program is started again and loads the file
LoadHistory ==
    /\ price_history' = load_history(history_file, now, max_history)
    /\ recorded' = 0
    /\ lookup' = NoLookup
    /\ UNCHANGED <<loop_vars, filter_vars, run_vars, max_history, now, history_file,
                   ext_vars>>

NextHistory ==
    \/ Tick
    \/ RecordPrice
    \/ GetPriceAtTime
    \/ SaveHistory
    \/ LoadHistory

SpecHistory == InitHistory /\ [][NextHistory]_vars

----------------------------------------------------------------------------
(* calculate_changes on a history loaded from a file that may hold null or
   zero prices. *)

\* most entries of the loaded file
MaxFileLen == 2

\* entries of the file: 60, 30 and 15 minutes before 3600, each price
\* present, zero or null
FileEntries ==
    { Reading(t, b, s) : t \in {0, 1800, 2700},
                         b \in {None, Some(0), Some(6900)},
                         s \in {None, Some(0), Some(6500)} }

\* datetime.now() when the history is loaded and the changes are calculated
StartTimes == {3600, 3690, 3720}

InitChanges ==
    /\ InitServices
    /\ exclude_methods = <<RecargaPines>>
    /\ payment_methods = <<>>
    /\ min_amount = 0
    /\ max_history = 1000
    /\ sudden_change_threshold = 5
    /\ twin = TwinInit

\* TrackerService.start: the history file is loaded
StartTracker ==
    /\ history_file = None
    /\ \E t \in StartTimes, n \in 0..MaxFileLen :
          \E file \in [1..n -> FileEntries] :
             /\ now' = t
             /\ history_file' = Some(file)
             /\ price_history' = load_history(Some(file), t, max_history)
    /\ UNCHANGED <<loop_vars, filter_vars, max_history, lookup, recorded,
                   run_vars,
                   ext_vars>>

\* a direct call of calculate_changes
CalculateChanges ==
    /\ history_file # None
    /\ ~period_changes.called
    /\ \E cb \in {6900, 7590} :
          LET r == calculate_changes(price_history, now, cb, 6500)
          IN  period_changes' =
                  [called |-> TRUE, current_buy |-> cb, current_sell |-> 6500,
                   result |-> r.result, raised |-> r.raised]
    /\ UNCHANGED <<loop_vars, filter_vars, history_vars, tracker_vars,
                   ext_vars>>

\* _process_prices: record_price, then calculate_changes
RecordAndCalculate ==
    /\ history_file # None
    /\ ~period_changes.called
    /\ \E cb \in {6900, 7590} :
          /\ price_history' = record_price(price_history, now, Some(cb),
                                           Some(6500), max_history)
          /\ LET r == calculate_changes(price_history', now, cb, 6500)
             IN  period_changes' =
                     [called |-> TRUE, current_buy |-> cb, current_sell |-> 6500,
                      result |-> r.result, raised |-> r.raised]
    /\ recorded' = recorded + 1
    /\ UNCHANGED <<loop_vars, filter_vars, max_history, now, lookup,
                   history_file, tracker_vars,
                   ext_vars>>

NextChanges ==
    \/ StartTracker
    \/ CalculateChanges
    \/ RecordAndCalculate

SpecChanges == InitChanges /\ [][NextChanges]_vars

----------------------------------------------------------------------------
(* TrackerService.run from its first iteration to its return: the loop with
   the running flag, the iteration counter, the history, the periodic and the
   final save, and the shutdown signal. The clock is held still. *)

\* the loop starts no iteration after iteration MaxIterations
MaxIterations == 11

\* responses of the BUY fetch: a failed call, a body whose data is null, no
\* offer, an offer at 6900, an offer with the price 0 and an offer at 7590
\* whose surplusAmount is null
RunBuyResponses ==
    {Failed, NullData, Ok(<<>>), Ok(<<LoopOffer("maker", 6900)>>),
     Ok(<<LoopOffer("maker", 0)>>),
     Ok(<<WithNullSurplus(LoopOffer("maker", 7590))>>)}

RunSellResponses == {Ok(<<>>), Ok(<<LoopOffer("taker", 6500)>>)}

\* variant of RecordIfBoth: one price is enough to record
RecordIfBoth_Any(history, time, buy, sell, maxlen) ==
    record_price(history, time, buy, sell, maxlen)

\* _process_prices: record_price is called under
\* `if buy_price is not None and sell_price is not None`
RecordIfBoth(history, time, buy, sell, maxlen) ==
    IF buy # None /\ sell # None
    THEN record_price(history, time, buy, sell, maxlen)
    ELSE history

InitRun ==
    /\ InitServices
    /\ exclude_methods = <<RecargaPines>>
    /\ payment_methods = <<>>
    /\ min_amount = 0
    /\ max_history = 1000
    /\ sudden_change_threshold = 5
    /\ twin = TwinInit

\* variant of HandleSignal: the signal interrupts the iteration in progress
HandleSignal_Abort ==
    /\ running
    /\ pc # "returned"
    /\ running' = FALSE
    /\ pc' = IF pc \in {"request", "rank", "process", "sleep"}
             THEN "shutdown" ELSE pc
    /\ UNCHANGED <<exclude_methods, min_amount, sudden_change_threshold,
                   buy_data, sell_data, best_buy_offer, best_sell_offer,
                   buy_price, sell_price, outcome, telegram_buy_baseline,
                   telegram_sell_baseline, sudden_changes, alerts_log,
                   fatal_error, found, twin, payment_methods,
                   consecutive_failures, slept, filter_vars, history_vars,
                   period_changes, iteration, displayed, save_calls,
                   ext_vars>>

\* SignalHandler._handle_signal: the shutdown callback TrackerService.stop
HandleSignal ==
    /\ running
    /\ pc # "returned"
    /\ running' = FALSE
    /\ UNCHANGED <<loop_vars, filter_vars, history_vars, period_changes,
                   iteration, displayed, save_calls,
                   ext_vars>>

\* variant of EnterLoop: the loop does not test the flag
EnterLoop_Always(limit) ==
    /\ pc = "fetch"
    /\ iteration < limit
    /\ iteration' = iteration + 1
    /\ pc' = "request"
    /\ UNCHANGED <<exclude_methods, min_amount, sudden_change_threshold,
                   buy_data, sell_data, best_buy_offer, best_sell_offer,
                   buy_price, sell_price, outcome, telegram_buy_baseline,
                   telegram_sell_baseline, sudden_changes, alerts_log,
                   fatal_error, found, twin, payment_methods,
                   consecutive_failures, slept, filter_vars, history_vars,
                   period_changes, running, displayed, save_calls,
                   ext_vars>>

\* run(): `while self.running` holds (pc = "fetch" is the loop test) and
\* the iteration starts; no iteration starts after iteration `limit`
EnterLoop(limit) ==
    /\ pc = "fetch"
    /\ running
    /\ iteration < limit
    /\ iteration' = iteration + 1
    /\ pc' = "request"
    /\ UNCHANGED <<exclude_methods, min_amount, sudden_change_threshold,
                   buy_data, sell_data, best_buy_offer, best_sell_offer,
                   buy_price, sell_price, outcome, telegram_buy_baseline,
                   telegram_sell_baseline, sudden_changes, alerts_log,
                   fatal_error, found, twin, payment_methods,
                   consecutive_failures, slept, filter_vars, history_vars,
                   period_changes, running, displayed, save_calls,
                   ext_vars>>

RunStartIteration == EnterLoop(MaxIterations)

\* get_current_prices issues its two fetch_offers calls, answered from
\* the given sets of responses
IssueFetches(buys, sells) ==
    /\ pc = "request"
    /\ \E b \in buys, s \in sells :
          /\ buy_data' = b
          /\ sell_data' = s
    /\ buy_price' = None
    /\ sell_price' = None
    /\ outcome' = "pending"
    /\ sudden_changes' = <<>>
    /\ slept' = <<>>
    /\ displayed' = NoDisplay
    /\ pc' = "rank"
    /\ UNCHANGED <<exclude_methods, min_amount, sudden_change_threshold,
                   best_buy_offer, best_sell_offer, telegram_buy_baseline,
                   telegram_sell_baseline, alerts_log, fatal_error, found,
                   twin, payment_methods, consecutive_failures, filter_vars,
                   history_vars, period_changes, running, iteration,
                   save_calls,
                   ext_vars>>

RunFetchOffers == IssueFetches(RunBuyResponses, RunSellResponses)

\* variant of RunExitLoop: run() returns from the loop without _shutdown
RunExitLoop_NoFlush ==
    /\ pc = "fetch"
    /\ ~running
    /\ pc' = "returned"
    /\ UNCHANGED <<exclude_methods, min_amount, sudden_change_threshold,
                   buy_data, sell_data, best_buy_offer, best_sell_offer,
                   buy_price, sell_price, outcome, telegram_buy_baseline,
                   telegram_sell_baseline, sudden_changes, alerts_log,
                   fatal_error, found, twin, payment_methods,
                   consecutive_failures, slept, filter_vars, history_vars,
                   run_vars,
                   ext_vars>>

\* run(): `while self.running` fails and the finally clause is entered
RunExitLoop ==
    /\ pc = "fetch"
    /\ ~running
    /\ pc' = "shutdown"
    /\ UNCHANGED <<exclude_methods, min_amount, sudden_change_threshold,
                   buy_data, sell_data, best_buy_offer, best_sell_offer,
                   buy_price, sell_price, outcome, telegram_buy_baseline,
                   telegram_sell_baseline, sudden_changes, alerts_log,
                   fatal_error, found, twin, payment_methods,
                   consecutive_failures, slept, filter_vars, history_vars,
                   run_vars,
                   ext_vars>>

\* run(): at least one price, _process_prices; an exception raised by
\* check_sudden_change, send_regular_update or display_status leaves the loop
\* for the finally clause. With both prices the save, the reset of the
\* counter and the display follow the calls that can raise; with one price
\* display_status is the only call. The outcome of a save_history call is
\* the environment's.
RunProcessPrices ==
    /\ pc = "process"
    /\ buy_price # None \/ sell_price # None
    /\ LET both == buy_price # None /\ sell_price # None
           recorded_history ==
               RecordIfBoth(price_history, now, buy_price, sell_price,
                            max_history)
           r == _process_prices(buy_price, sell_price, telegram_buy_baseline,
                                telegram_sell_baseline, best_buy_offer,
                                best_sell_offer, sudden_change_threshold,
                                alerts_log)
           saves == both /\ ~r.raised /\ iteration % 10 = 0
       IN  /\ price_history' = recorded_history
           /\ period_changes' =
                 IF both
                 THEN LET c == calculate_changes(recorded_history, now,
                                                 Val(buy_price), Val(sell_price))
                      IN  [called |-> TRUE, current_buy |-> Val(buy_price),
                           current_sell |-> Val(sell_price),
                           result |-> c.result, raised |-> c.raised]
                 ELSE period_changes
           /\ telegram_buy_baseline' = r.buy_baseline
           /\ telegram_sell_baseline' = r.sell_baseline
           /\ sudden_changes' = r.sudden_changes
           /\ alerts_log' = r.alerts_log
           /\ fatal_error' = r.raised
           /\ \E ok \in BOOLEAN :
                 /\ save_calls' =
                       IF saves
                       THEN Append(save_calls, [by |-> "_process_prices",
                                                iteration |-> iteration,
                                                ok |-> ok])
                       ELSE save_calls
                 /\ history_file' =
                       IF saves /\ ok THEN save_history(recorded_history)
                       ELSE history_file
           /\ consecutive_failures' =
                 IF both /\ ~r.raised THEN 0 ELSE consecutive_failures
           /\ displayed' =
                 IF both /\ r.raised THEN displayed
                 ELSE [kind |-> "status", buy_price |-> buy_price,
                       sell_price |-> sell_price]
           /\ pc' = IF r.raised THEN "shutdown" ELSE "sleep"
    /\ UNCHANGED <<exclude_methods, min_amount, sudden_change_threshold,
                   buy_data, sell_data, best_buy_offer, best_sell_offer,
                   buy_price, sell_price, outcome, found, twin,
                   payment_methods, slept, filter_vars, max_history, now,
                   lookup, recorded, running, iteration,
                   ext_vars>>

\* run(): no price at all, _handle_no_offers
RunHandleNoOffers ==
    /\ pc = "process"
    /\ buy_price = None /\ sell_price = None
    /\ displayed' = [kind |-> "no_offers", buy_price |-> None,
                     sell_price |-> None]
    /\ LET r == _handle_no_offers(consecutive_failures)
       IN  /\ consecutive_failures' = r.consecutive_failures
           /\ slept' = r.slept
    /\ pc' = "sleep"
    /\ UNCHANGED <<exclude_methods, min_amount, sudden_change_threshold,
                   buy_data, sell_data, best_buy_offer, best_sell_offer,
                   buy_price, sell_price, outcome, telegram_buy_baseline,
                   telegram_sell_baseline, sudden_changes, alerts_log,
                   fatal_error, found, twin, payment_methods, filter_vars,
                   history_vars, period_changes, running, iteration,
                   save_calls,
                   ext_vars>>

\* run(): `if self.running: time.sleep(self.config.check_interval)`
RunSleep ==
    /\ pc = "sleep"
    /\ slept' = IF running THEN Append(slept, check_interval) ELSE slept
    /\ pc' = "fetch"
    /\ UNCHANGED <<exclude_methods, min_amount, sudden_change_threshold,
                   buy_data, sell_data, best_buy_offer, best_sell_offer,
                   buy_price, sell_price, outcome, telegram_buy_baseline,
                   telegram_sell_baseline, sudden_changes, alerts_log,
                   fatal_error, found, twin, payment_methods,
                   consecutive_failures, filter_vars, history_vars, run_vars,
                   ext_vars>>

\* run(): the finally clause, _shutdown; a failure of the write is logged
\* by save_history
RunShutdown ==
    /\ pc = "shutdown"
    /\ \E ok \in BOOLEAN :
          /\ save_calls' = Append(save_calls, [by |-> "_shutdown",
                                               iteration |-> iteration,
                                               ok |-> ok])
          /\ history_file' = IF ok THEN save_history(price_history)
                             ELSE history_file
    /\ pc' = "returned"
    /\ UNCHANGED <<exclude_methods, min_amount, sudden_change_threshold,
                   buy_data, sell_data, best_buy_offer, best_sell_offer,
                   buy_price, sell_price, outcome, telegram_buy_baseline,
                   telegram_sell_baseline, sudden_changes, alerts_log,
                   fatal_error, found, twin, payment_methods,
                   consecutive_failures, slept, filter_vars, max_history,
                   price_history, now, lookup, recorded, period_changes,
                   running, iteration, displayed,
                   ext_vars>>

\* the steps of the loop thread after the fetches
RunAfterFetch ==
    \/ GetCurrentPrices
    \/ RunProcessPrices
    \/ RunHandleNoOffers
    \/ RunSleep
    \/ RunExitLoop
    \/ RunShutdown

\* the steps of the loop thread after the loop test
RunIteration == RunFetchOffers \/ RunAfterFetch

NextRun == RunStartIteration \/ RunIteration \/ HandleSignal

SpecRun == InitRun /\ [][NextRun]_vars

\* the runs of at most MaxFairIterations iterations in which the loop thread
\* is scheduled as long as it has a step to take
MaxFairIterations == 4

RunStartIterationFair == EnterLoop(MaxFairIterations)

RunStepFair == RunStartIterationFair \/ RunIteration

NextRunFair == RunStepFair \/ HandleSignal

SpecRunFair == InitRun /\ [][NextRunFair]_vars /\ WF_vars(RunStepFair)

----------------------------------------------------------------------------
(* TrackerService.run on responses that carry data faults: an offer priced 0
   and a BUY offer priced more than twice the SELL offer *)

\* the loop starts no iteration after iteration MaxFaultIterations
MaxFaultIterations == 2

FaultBuyResponses ==
    {Ok(<<LoopOffer("maker", 6900)>>), Ok(<<LoopOffer("maker", 0)>>),
     Ok(<<LoopOffer("maker", 13100)>>)}

FaultSellResponses ==
    {Ok(<<>>), Ok(<<LoopOffer("taker", 6500)>>), Ok(<<LoopOffer("taker", 0)>>),
     Ok(<<LoopOffer("taker", 3400)>>)}

FaultStartIteration == EnterLoop(MaxFaultIterations)

FaultFetchOffers == IssueFetches(FaultBuyResponses, FaultSellResponses)

NextFault ==
    FaultStartIteration \/ FaultFetchOffers \/ RunAfterFetch \/ HandleSignal

SpecFault == InitRun /\ [][NextFault]_vars

----------------------------------------------------------------------------
(* Configuration and the entry points: Config of infrastructure/config.py
   with main() of cli.py, and main() of price_tracker_prod.py. A dictionary
   key or a command-line option is present (Some) or absent (None). *)

SuspiciousLogFile(path) == path \in {"../tracker.log", "/etc/tracker.log"}

\* Config.from_dict: the settings with their defaults
ConfigFromDict(data) ==
    [check_interval |-> IF data.check_interval = None THEN 30
                        ELSE Val(data.check_interval),
     alert_threshold |-> IF data.alert_threshold = None THEN 2
                         ELSE Val(data.alert_threshold),
     min_amount |-> IF data.min_amount = None THEN 0 ELSE Val(data.min_amount),
     telegram_enabled |-> data.telegram_enabled,
     telegram_bot_token |-> data.telegram_bot_token,
     telegram_chat_id |-> data.telegram_chat_id,
     telegram_sudden_change_threshold |-> 5,
     telegram_language |-> "en",
     log_file |-> "price_tracker.log"]

\* a dictionary without keys
EmptyDict ==
    [check_interval |-> None, alert_threshold |-> None, min_amount |-> None,
     telegram_enabled |-> FALSE, telegram_bot_token |-> "",
     telegram_chat_id |-> ""]

\* Config._validate of config.py raises ValueError
_validate(c) ==
    \/ c.check_interval < 10
    \/ c.check_interval > 3600
    \/ c.alert_threshold < 0 \/ c.alert_threshold > 100
    \/ c.min_amount < 0
    \/ SuspiciousLogFile(c.log_file)
    \/ /\ c.telegram_enabled
       /\ \/ c.telegram_bot_token = "" \/ c.telegram_chat_id = ""
          \/ c.telegram_sudden_change_threshold < 0
          \/ c.telegram_sudden_change_threshold > 100
          \/ c.telegram_language \notin {"en", "es"}

\* Config._validate of price_tracker_prod.py raises ValueError (email and
\* webhook alerts are off)
_validate_prod(c) ==
    \/ c.check_interval < 10
    \/ c.check_interval > 3600
    \/ c.alert_threshold < 0 \/ c.alert_threshold > 100
    \/ c.min_amount < 0
    \/ SuspiciousLogFile(c.log_file)

\* main(): `if args.interval:`, `if args.threshold:`, `if args.min_amount:`
ApplyOverrides(c, a) ==
    [c EXCEPT !.check_interval = IF Truthy(a.interval) THEN Val(a.interval)
                                 ELSE @,
              !.alert_threshold = IF Truthy(a.threshold) THEN Val(a.threshold)
                                  ELSE @,
              !.min_amount = IF Truthy(a.min_amount) THEN Val(a.min_amount)
                             ELSE @]

\* values of --interval, --threshold and --min-amount
CommandLines ==
    [interval : {None} \cup { Some(i) : i \in {-5, 0, 9, 10, 3600, 3601} },
     threshold : {None} \cup { Some(t) : t \in {-1, 0, 101} },
     min_amount : {None} \cup { Some(m) : m \in {-5, 0} }]

\* configuration files: no file, or a JSON object
ConfigFiles ==
    {None} \cup
    { Some([check_interval |-> i, alert_threshold |-> t, min_amount |-> m,
            telegram_enabled |-> tg[1], telegram_bot_token |-> tg[2],
            telegram_chat_id |-> tg[3]]) :
        i \in {None, Some(5), Some(3600), Some(3601)},
        t \in {None, Some(-1), Some(101)},
        m \in {None, Some(-1)},
        tg \in {<<FALSE, "", "">>, <<TRUE, "", "">>, <<TRUE, "token", "">>,
                <<TRUE, "", "42">>, <<TRUE, "token", "42">>} }

InitMain ==
    /\ InitServices
    /\ exclude_methods = <<RecargaPines>>
    /\ payment_methods = <<>>
    /\ min_amount = 0
    /\ max_history = 1000
    /\ sudden_change_threshold = 5
    /\ twin = TwinInit

\* the program is started from the shell
Invoke ==
    /\ main_pc = "shell"
    /\ program' \in {"cli", "prod"}
    /\ args' \in CommandLines
    /\ config_file' \in ConfigFiles
    /\ main_pc' = "load"
    /\ UNCHANGED <<svc_vars, disk_vars, notifier_vars, mock, config,
                   exit_code>>

\* main(): the configuration file is read. cli.py builds the Config, whose
\* __post_init__ validates, and exits with 1 on any exception;
\* price_tracker_prod.py keeps the dictionary.
MainLoadConfig ==
    /\ main_pc = "load"
    /\ LET c == ConfigFromDict(IF config_file = None THEN EmptyDict
                               ELSE Val(config_file))
           raised == program = "cli" /\ config_file # None /\ _validate(c)
       IN  /\ config' = IF raised THEN None ELSE Some(c)
           /\ exit_code' = IF raised THEN Some(1) ELSE None
           /\ main_pc' = IF raised THEN "exited" ELSE "override"
    /\ UNCHANGED <<svc_vars, disk_vars, notifier_vars, mock, program,
                   args, config_file>>

\* main(): "Override with CLI arguments"
MainOverride ==
    /\ main_pc = "override"
    /\ config' = Some(ApplyOverrides(Val(config), args))
    /\ main_pc' = "validate"
    /\ UNCHANGED <<svc_vars, disk_vars, notifier_vars, mock, program,
                   args, config_file, exit_code>>

\* main(): "Validate interval"; price_tracker_prod.py builds the Config
\* first, and a ValueError of its validation ends the process
MainValidateInterval ==
    /\ main_pc = "validate"
    /\ LET rejected == \/ program = "prod" /\ _validate_prod(Val(config))
                       \/ Val(config).check_interval < 10
       IN  /\ exit_code' = IF rejected THEN Some(1) ELSE None
           /\ main_pc' = IF rejected THEN "exited"
                         ELSE IF program = "cli" THEN "construct"
                         ELSE "tracking"
    /\ UNCHANGED <<svc_vars, disk_vars, notifier_vars, mock, program,
                   args, config_file, config>>

\* main() of cli.py: PriceService(..., config=config) raises TypeError, the
\* constructor has no such parameter
MainConstruct ==
    /\ main_pc = "construct"
    /\ exit_code' = Some(1)
    /\ main_pc' = "exited"
    /\ UNCHANGED <<svc_vars, disk_vars, notifier_vars, mock, program,
                   args, config_file, config>>

NextMain ==
    \/ Invoke
    \/ MainLoadConfig
    \/ MainOverride
    \/ MainValidateInterval
    \/ MainConstruct

SpecMain == InitMain /\ [][NextMain]_vars

----------------------------------------------------------------------------
(* HistoryPersistence on the JSON document of the history file *)

\* JSON null
JNull == [kind |-> "null", val |-> 0]

\* a JSON number
JNumber(n) == [kind |-> "number", val |-> n]

\* the JSON string that datetime.isoformat writes for the time t, which is
\* the string datetime.fromisoformat reads as t
JIso(t) == [kind |-> "iso", val |-> t]

\* a JSON string that is not an ISO date
JText == [kind |-> "text", val |-> 0]

\* a JSON object of the history array; a key that is missing is None
JObject(timestamp, buy, sell) ==
    [kind |-> "object", timestamp |-> timestamp, buy |-> buy, sell |-> sell]

\* json.dump of a price: a float or None
PriceToJson(price) == IF price = None THEN JNull ELSE JNumber(Val(price))

\* the value json.load gives for a price: a number or None
PriceFromJson(value) == IF value.kind = "null" THEN None ELSE Some(value.val)

\* mutant: the history array is written newest entry first
HistoryData_Reversed(history) ==
    [ i \in 1..Len(history) |->
        JObject(Some(JIso(history[Len(history) + 1 - i].timestamp)),
                Some(PriceToJson(history[Len(history) + 1 - i].buy)),
                Some(PriceToJson(history[Len(history) + 1 - i].sell))) ]

\* data["history"] built by save_history from the deque
HistoryData(history) ==
    [ i \in 1..Len(history) |->
        JObject(Some(JIso(history[i].timestamp)),
                Some(PriceToJson(history[i].buy)),
                Some(PriceToJson(history[i].sell))) ]

\* a file that holds the first n entries of the document; it is a JSON
\* document only when it was written to its end
FileOf(data, n, complete) ==
    Some([complete |-> complete, last_updated |-> data.last_updated,
          history |-> SubSeq(data.history, 1, n)])

\* the body of the loop of load_history on one element of the history array
EntryOutcome(entry, time) ==
    IF entry.kind # "object" THEN "TypeError"
    ELSE IF entry.timestamp = None THEN "KeyError"
    ELSE IF Val(entry.timestamp).kind \in {"number", "null"} THEN "TypeError"
    ELSE IF Val(entry.timestamp).kind = "text" THEN "ValueError"
    ELSE IF ~(time - Val(entry.timestamp).val < 86400) THEN "old"
    ELSE IF entry.buy = None \/ entry.sell = None THEN "KeyError"
    ELSE "append"

\* the loop of load_history: ValueError and KeyError skip the entry, any
\* other exception leaves the loop for `except Exception`
RECURSIVE LoadDocumentEntries(_, _, _, _)
LoadDocumentEntries(entries, history, time, maxlen) ==
    IF entries = <<>> THEN [history |-> history, raised |-> FALSE]
    ELSE LET entry == Head(entries)
             o == EntryOutcome(entry, time)
         IN  IF o = "TypeError" THEN [history |-> history, raised |-> TRUE]
             ELSE LoadDocumentEntries(Tail(entries),
                      IF o = "append"
                      THEN DequeAppend(history,
                               Reading(Val(entry.timestamp).val,
                                       PriceFromJson(Val(entry.buy)),
                                       PriceFromJson(Val(entry.sell))),
                               maxlen)
                      ELSE history,
                      time, maxlen)

\* HistoryPersistence.load_history on the file: the deque is cleared, a
\* missing file ends the load, a file that is not a JSON document makes
\* json.load raise
load_document(file, time, maxlen) ==
    IF file = None THEN [history |-> <<>>, raised |-> FALSE]
    ELSE IF ~Val(file).complete THEN [history |-> <<>>, raised |-> TRUE]
    ELSE LoadDocumentEntries(Val(file).history, <<>>, time, maxlen)

----------------------------------------------------------------------------
(* SpecDisk: the tracker records, saves, dies and starts again *)

\* datetime.now() at the steps of the run
DiskTimes == {0, 43200, 86400, 129600}

\* prices recorded by the run
DiskBuyPrices == {6900}

\* max_history of the configurations the tracker is started with
DiskMaxHistory == {1, 2}

InitDisk ==
    /\ InitServices
    /\ exclude_methods = <<>>
    /\ min_amount = 0
    /\ sudden_change_threshold = 5
    /\ payment_methods = <<>>
    /\ twin = TwinInit
    /\ max_history = 2

\* time passes between two steps of the process
DiskTick ==
    /\ disk_pc \in {"idle", "dead"}
    /\ \E t \in DiskTimes : t > now /\ now' = t
    /\ UNCHANGED <<loop_vars, filter_vars, max_history, price_history, lookup,
                   recorded, history_file, run_vars, main_vars, disk_vars,
                   notifier_vars, mock>>

\* PriceService.record_price between two saves
DiskRecord ==
    /\ disk_pc = "idle"
    /\ \E b \in DiskBuyPrices :
         price_history' = record_price(price_history, now, Some(b), Some(6500),
                                       max_history)
    /\ UNCHANGED <<loop_vars, filter_vars, max_history, now, lookup, recorded,
                   history_file, run_vars, main_vars, disk_vars, notifier_vars,
                   mock>>

\* save_history is called: `data` is built from the clock and the deque
SaveBegin ==
    /\ disk_pc = "idle"
    /\ disk_pc' = "open"
    /\ save_data' = [last_updated |-> now,
                      history |-> HistoryData(price_history)]
    /\ UNCHANGED <<svc_vars, main_vars, target_file, temp_file, load_raised,
                   notifier_vars, mock>>

\* mutant: the document is written over the history file itself
SaveOpen_InPlace ==
    /\ disk_pc = "open"
    /\ \/ /\ target_file' = FileOf(save_data, 0, FALSE)
          /\ disk_pc' = "dump"
       \/ /\ disk_pc' = "idle"
          /\ UNCHANGED target_file
    /\ UNCHANGED <<svc_vars, main_vars, temp_file, save_data, load_raised,
                   notifier_vars, mock>>

\* open(temp_filename, 'w'): the temporary file is created or truncated, or
\* the open raises and `except Exception` ends the save
SaveOpen ==
    /\ disk_pc = "open"
    /\ \/ /\ temp_file' = FileOf(save_data, 0, FALSE)
          /\ disk_pc' = "dump"
       \/ /\ disk_pc' = "idle"
          /\ UNCHANGED temp_file
    /\ UNCHANGED <<svc_vars, main_vars, target_file, save_data, load_raised,
                   notifier_vars, mock>>

\* json.dump writes the next part of the document, or the write raises
SaveDump ==
    /\ disk_pc = "dump"
    /\ Len(Val(temp_file).history) < Len(save_data.history)
    /\ \/ /\ temp_file' = FileOf(save_data, Len(Val(temp_file).history) + 1,
                                 FALSE)
          /\ UNCHANGED disk_pc
       \/ /\ disk_pc' = "idle"
          /\ UNCHANGED temp_file
    /\ UNCHANGED <<svc_vars, main_vars, target_file, save_data, load_raised,
                   notifier_vars, mock>>

\* the end of the document is written and the `with` block closes the file,
\* or that last write raises
SaveClose ==
    /\ disk_pc = "dump"
    /\ Len(Val(temp_file).history) = Len(save_data.history)
    /\ \/ /\ temp_file' = FileOf(save_data, Len(save_data.history), TRUE)
          /\ disk_pc' = "replace"
       \/ /\ disk_pc' = "idle"
          /\ UNCHANGED temp_file
    /\ UNCHANGED <<svc_vars, main_vars, target_file, save_data, load_raised,
                   notifier_vars, mock>>

\* os.replace(temp_filename, self.filename): the rename happens as a whole,
\* or raises and leaves both files
SaveReplace ==
    /\ disk_pc = "replace"
    /\ disk_pc' = "idle"
    /\ \/ /\ target_file' = temp_file
          /\ temp_file' = None
       \/ UNCHANGED <<target_file, temp_file>>
    /\ UNCHANGED <<svc_vars, main_vars, save_data, load_raised, notifier_vars,
                   mock>>

\* the process dies, inside a save or between two saves
DiskCrash ==
    /\ disk_pc # "dead"
    /\ disk_pc' = "dead"
    /\ UNCHANGED <<svc_vars, main_vars, target_file, temp_file, save_data,
                   load_raised, notifier_vars, mock>>

\* TrackerService.start of a new process: a deque of the configured
\* max_history is filled by load_history
DiskStart ==
    /\ disk_pc = "dead"
    /\ disk_pc' = "idle"
    /\ \E m \in DiskMaxHistory :
         /\ max_history' = m
         /\ LET r == load_document(target_file, now, m)
            IN  /\ price_history' = r.history
                /\ load_raised' = r.raised
    /\ save_data' = NoData
    /\ UNCHANGED <<loop_vars, filter_vars, now, lookup, recorded, history_file,
                   run_vars, main_vars, target_file, temp_file, notifier_vars,
                   mock>>

SaveHistorySteps == SaveBegin \/ SaveOpen \/ SaveDump \/ SaveClose \/ SaveReplace

NextDisk == DiskTick \/ DiskRecord \/ SaveHistorySteps \/ DiskCrash \/ DiskStart

SpecDisk == InitDisk /\ [][NextDisk]_vars

----------------------------------------------------------------------------
(* SpecLoad: a process starts on a history file it did not write *)

MaxDocLen == 3

\* elements found in the history array of a file: entries as save_history
\* writes them, entries with a missing key, with a timestamp that is not an
\* ISO date or not a string, with a null price, and a string in the place of
\* an entry
DocElements ==
    { JObject(Some(JIso(0)), Some(JNumber(6900)), Some(JNumber(6500))),
      JObject(Some(JIso(43200)), Some(JNumber(7000)), Some(JNumber(6500))),
      JObject(Some(JIso(86400)), Some(JNull), Some(JNumber(6500))),
      JObject(None, Some(JNumber(6900)), Some(JNumber(6500))),
      JObject(Some(JIso(86400)), None, Some(JNumber(6500))),
      JObject(Some(JText), Some(JNumber(6900)), Some(JNumber(6500))),
      JObject(Some(JNumber(86400)), Some(JNumber(6900)), Some(JNumber(6500))),
      JText }

RECURSIVE DocsOfLen(_)
DocsOfLen(n) ==
    IF n = 0 THEN {<<>>}
    ELSE { Append(d, e) : d \in DocsOfLen(n - 1), e \in DocElements }

\* the history arrays of up to MaxDocLen elements
Documents == UNION { DocsOfLen(n) : n \in 0..MaxDocLen }

\* the file is written while no tracker runs
ForeignWrite ==
    /\ disk_pc = "dead"
    /\ target_file = None
    /\ \E d \in Documents :
         target_file' = FileOf([last_updated |-> now, history |-> d], Len(d),
                               TRUE)
    /\ UNCHANGED <<svc_vars, main_vars, temp_file, disk_pc, save_data,
                   load_raised, notifier_vars, mock>>

NextLoad == DiskCrash \/ ForeignWrite \/ DiskTick \/ DiskStart

SpecLoad == InitDisk /\ [][NextLoad]_vars

----------------------------------------------------------------------------
(* The Telegram chat and the message handles of AlertService *)

\* a message of the chat; its message_id is its position
Message(kind) == [kind |-> kind, deleted |-> FALSE, delete_requested |-> FALSE]

\* a call of TelegramClient: delete_message(message_id),
\* edit_message(message_id, text), or send_message(text) with the
\* message_id it returned
ClientCall(op, kind, message_id) ==
    [op |-> op, kind |-> kind, message_id |-> message_id]

\* TelegramClient.delete_message on the chat: the request is carried out or
\* it fails and the client returns False
delete_message(c, message_id, ok) ==
    [c EXCEPT ![message_id] = [@ EXCEPT !.deleted = @ \/ ok,
                                        !.delete_requested = TRUE]]

\* TelegramClient.send_message on the chat: the new message and its
\* message_id, or None
send_message(c, kind, ok) ==
    IF ok THEN [chat |-> Append(c, Message(kind)), message_id |-> Some(Len(c) + 1)]
    ELSE [chat |-> c, message_id |-> None]

\* mutant: the previous alert of the side is left in the chat
SendSide_KeepPrevious(c, handle, side, del_ok, send_ok) ==
    LET sent == send_message(c, side, send_ok)
    IN  [chat |-> sent.chat,
         handle |-> IF Truthy(sent.message_id) THEN sent.message_id ELSE handle,
         calls |-> <<ClientCall("send", side, sent.message_id)>>]

\* AlertService.send_alerts for one side that has changes: the previous
\* alert of the side is deleted, the new one is sent, and its message_id is
\* stored if there is one
SendSide(c, handle, side, del_ok, send_ok) ==
    LET c1 == IF Truthy(handle) THEN delete_message(c, Val(handle), del_ok)
              ELSE c
        deleted == IF Truthy(handle)
                   THEN <<ClientCall("delete", side, handle)>> ELSE <<>>
        sent == send_message(c1, side, send_ok)
    IN  [chat |-> sent.chat,
         handle |-> IF Truthy(sent.message_id) THEN sent.message_id ELSE handle,
         calls |-> deleted \o <<ClientCall("send", side, sent.message_id)>>]

\* a side without changes is not touched
SkipSide(c, handle) == [chat |-> c, handle |-> handle, calls |-> <<>>]

\* mutant: a failed edit is followed by a new message
send_regular_update_Resend(c, handle, edit_ok, send_ok) ==
    IF Truthy(handle) /\ edit_ok
    THEN [chat |-> c, handle |-> handle, result |-> handle,
          calls |-> <<ClientCall("edit", "update", handle)>>]
    ELSE LET sent == send_message(c, "update", send_ok)
         IN  [chat |-> sent.chat,
              handle |-> IF Truthy(sent.message_id) THEN sent.message_id
                         ELSE handle,
              result |-> sent.message_id,
              calls |-> <<ClientCall("send", "update", sent.message_id)>>]

\* AlertService.send_regular_update on a formatted message: the stored
\* message is edited, or a new one is sent and its message_id stored
send_regular_update(c, handle, edit_ok, send_ok) ==
    IF Truthy(handle)
    THEN [chat |-> c, handle |-> handle,
          result |-> IF edit_ok THEN handle ELSE None,
          calls |-> <<ClientCall("edit", "update", handle)>>]
    ELSE LET sent == send_message(c, "update", send_ok)
         IN  [chat |-> sent.chat,
              handle |-> IF Truthy(sent.message_id) THEN sent.message_id
                         ELSE handle,
              result |-> sent.message_id,
              calls |-> <<ClientCall("send", "update", sent.message_id)>>]

----------------------------------------------------------------------------
(* MockPriceTracker of test_telegram_alerts.py *)

\* an entry of the list check_alert returns
MockAlert(type, change, old, new) ==
    [type |-> type, direction |-> IF change.num * change.den > 0 THEN "UP" ELSE "DOWN",
     change |-> change, old_price |-> old, new_price |-> new]

\* MockPriceTracker.check_alert on prices that are present
check_alert(m, current_buy, current_sell, threshold) ==
    LET bb == IF m.buy_baseline = None THEN current_buy ELSE m.buy_baseline
        sb == IF m.sell_baseline = None THEN current_sell ELSE m.sell_baseline
        buy_change == Pct(Val(current_buy), Val(bb))
        sell_change == Pct(Val(current_sell), Val(sb))
        buy_alert == /\ Truthy(bb) /\ Truthy(current_buy)
                     /\ Abs(buy_change.num) >= threshold * Abs(buy_change.den)
        sell_alert == /\ Truthy(sb) /\ Truthy(current_sell)
                      /\ Abs(sell_change.num) >= threshold * Abs(sell_change.den)
    IN  [buy_baseline |-> IF buy_alert THEN current_buy ELSE bb,
         sell_baseline |-> IF sell_alert THEN current_sell ELSE sb,
         alerts |->
            (IF buy_alert
             THEN <<MockAlert("BUY", buy_change, Val(bb), Val(current_buy))>>
             ELSE <<>>)
            \o (IF sell_alert
                THEN <<MockAlert("SELL", sell_change, Val(sb), Val(current_sell))>>
                ELSE <<>>)]

----------------------------------------------------------------------------
(* SpecNotify: check_sudden_change is called cycle by cycle with both
   prices present, the notifier succeeding or failing call by call, and the
   test's reference model is given the same observations.
   SpecUpdate: the two calls _process_prices makes on the alert service,
   check_sudden_change and then send_regular_update. *)

NotifyThresholds == {0, 5}

NotifyBuyPrices == {0, 100, 105, 110}

NotifySellPrices == {100, 110}

UpdateBuyPrices == {100, 110}

UpdateSellPrices == {100}

InitNotify ==
    /\ InitServices
    /\ exclude_methods = <<>>
    /\ min_amount = 0
    /\ sudden_change_threshold \in NotifyThresholds
    /\ payment_methods = <<>>
    /\ twin = TwinInit
    /\ max_history = 2

\* get_current_prices returned both prices and their offers
ObservePrices(buys, sells) ==
    /\ pc = "fetch"
    /\ Len(alerts_log) < MaxLog
    /\ \E b \in buys, s \in sells :
         /\ buy_price' = Some(b)
         /\ sell_price' = Some(s)
         /\ best_buy_offer' = Some(LoopOffer("maker", b))
         /\ best_sell_offer' = Some(LoopOffer("taker", s))
    /\ pc' = "process"
    /\ UNCHANGED <<exclude_methods, min_amount, sudden_change_threshold,
                   buy_data, sell_data, outcome, telegram_buy_baseline,
                   telegram_sell_baseline, sudden_changes, alerts_log,
                   fatal_error, found, twin, payment_methods,
                   consecutive_failures, slept, filter_vars, history_vars,
                   run_vars, main_vars, disk_vars, notifier_vars, mock>>

\* mutant: the baselines are reset only when every alert was delivered
Baselines_ResetOnDelivery(r, calls) ==
    IF \E i \in 1..Len(calls) : calls[i].op = "send" /\ calls[i].message_id = None
    THEN <<telegram_buy_baseline, telegram_sell_baseline>>
    ELSE <<r.buy_baseline, r.sell_baseline>>

\* the baselines after check_sudden_change: they are assigned before
\* send_alerts is called
Baselines(r, calls) == <<r.buy_baseline, r.sell_baseline>>

NotifyPrices == ObservePrices(NotifyBuyPrices, NotifySellPrices)

UpdatePrices == ObservePrices(UpdateBuyPrices, UpdateSellPrices)

\* AlertService.check_sudden_change with send_alerts, and check_alert of
\* the reference model on the same observation
AlertCheck(next) ==
    /\ pc = "process"
    /\ LET r == check_sudden_change(telegram_buy_baseline,
                                    telegram_sell_baseline, buy_price,
                                    sell_price, best_buy_offer,
                                    best_sell_offer, sudden_change_threshold)
           has_buy == \E i \in 1..Len(r.sudden_changes) :
                          r.sudden_changes[i].type = "BUY"
           has_sell == \E i \in 1..Len(r.sudden_changes) :
                           r.sudden_changes[i].type = "SELL"
       IN  /\ sudden_changes' = r.sudden_changes
           /\ alerts_log' = IF r.sudden_changes # <<>>
                            THEN send_alerts(alerts_log, r.sudden_changes)
                            ELSE alerts_log
           /\ fatal_error' = r.raised
           /\ \E bdel, bsend, sdel, ssend \in BOOLEAN :
                LET b == IF has_buy
                         THEN SendSide(chat, last_buy_alert_message_id, "BUY",
                                       bdel, bsend)
                         ELSE SkipSide(chat, last_buy_alert_message_id)
                    s == IF has_sell
                         THEN SendSide(b.chat, last_sell_alert_message_id,
                                       "SELL", sdel, ssend)
                         ELSE SkipSide(b.chat, last_sell_alert_message_id)
                IN  /\ chat' = s.chat
                    /\ last_buy_alert_message_id' = b.handle
                    /\ last_sell_alert_message_id' = s.handle
                    /\ client_calls' = b.calls \o s.calls
                    /\ telegram_buy_baseline' = Baselines(r, b.calls \o s.calls)[1]
                    /\ telegram_sell_baseline' = Baselines(r, b.calls \o s.calls)[2]
    /\ mock' = check_alert(mock, buy_price, sell_price, sudden_change_threshold)
    /\ pc' = next
    /\ UNCHANGED <<exclude_methods, min_amount, sudden_change_threshold,
                   buy_data, sell_data, best_buy_offer, best_sell_offer,
                   buy_price, sell_price, outcome, found, twin,
                   payment_methods, consecutive_failures, slept, filter_vars,
                   history_vars, run_vars, main_vars, disk_vars,
                   last_telegram_message_id, update_result>>

\* the harness calls check_sudden_change alone
NotifyCheck == AlertCheck("fetch")

\* _process_prices goes on to send_regular_update
UpdateCheck == AlertCheck("update")

\* AlertService.send_regular_update of the cycle
RegularUpdate ==
    /\ pc = "update"
    /\ \E edit_ok, send_ok \in BOOLEAN :
         LET u == send_regular_update(chat, last_telegram_message_id, edit_ok,
                                      send_ok)
         IN  /\ chat' = u.chat
             /\ last_telegram_message_id' = u.handle
             /\ update_result' = u.result
             /\ client_calls' = u.calls
    /\ pc' = "fetch"
    /\ UNCHANGED <<exclude_methods, min_amount, sudden_change_threshold,
                   buy_data, sell_data, best_buy_offer, best_sell_offer,
                   buy_price, sell_price, outcome, telegram_buy_baseline,
                   telegram_sell_baseline, sudden_changes, alerts_log,
                   fatal_error, found, twin, payment_methods,
                   consecutive_failures, slept, filter_vars, history_vars,
                   run_vars, main_vars, disk_vars, last_buy_alert_message_id,
                   last_sell_alert_message_id, mock>>

NextNotify == NotifyPrices \/ NotifyCheck

SpecNotify == InitNotify /\ [][NextNotify]_vars

NextUpdate == UpdatePrices \/ UpdateCheck \/ RegularUpdate

SpecUpdate == InitNotify /\ [][NextUpdate]_vars

----------------------------------------------------------------------------
(* Payment-method and amount passes *)

\* the method a spelling stands for, read off a table
MethodOf(name) ==
    CASE name \in {RecargaPines, RecargaPinesPadded} -> "recarga pines"
      [] name \in {Banesco, BanescoLower} -> "banesco"
      [] name = Mercantil -> "mercantil"
      [] OTHER -> "unnamed"

\* the methods an offer names, and those a list names
MethodsOfOffer(offer) ==
    { MethodOf(offer.tradeMethods[i]) : i \in 1..Len(offer.tradeMethods) }
    \ {"unnamed"}

MethodsOfList(list) == { MethodOf(list[i]) : i \in 1..Len(list) }

\* the offers of a list that satisfy Keep, in list order
Kept(offers, Keep(_)) == SelectSeq(offers, Keep)

\* C11: filter_by_exclude_methods removes an offer exactly when one of its
\* method names is the same method as a deny-list entry, whatever the case
\* and the surrounding blanks of the two spellings; the other offers are
\* returned unchanged and in order.
C11_ExcludeRemovesExactlyUsers ==
    filter_call.pass = "exclude" =>
        LET denied == MethodsOfList(filter_call.methods)
            Clean(offer) == MethodsOfOffer(offer) \cap denied = {}
        IN  filter_call.result = Kept(filter_call.offers, Clean)

\* C11 witness: with the deny entry " RECARGA pines " the offer whose only
\* method is "Recarga Pines" is removed and the Banesco offer next to it is
\* kept
C11_Witness ==
    /\ filter_call.pass = "exclude"
    /\ filter_call.methods = <<RecargaPinesPadded>>
    /\ filter_call.offers = <<PlainOffer("bob", <<RecargaPines>>),
                              PlainOffer("ana", <<Banesco>>)>>
    /\ filter_call.result = <<PlainOffer("ana", <<Banesco>>)>>

\* C12: whatever deny-list the user supplies, the safety entry "Recarga
\* Pines" is applied, so the offer selected for a side never accepts that
\* payment method.
C12_SafetyEntryAlwaysActive ==
    \A side \in Sides :
        BestOf(side) # None =>
            "recarga pines" \notin MethodsOfOffer(Val(BestOf(side)))

\* C13: with a non-empty allow-list the offer selected for a side exposes at
\* least one allow-listed method.
C13_SelectedIsAllowListed ==
    payment_methods # <<>> =>
        \A side \in Sides :
            BestOf(side) # None =>
                MethodsOfOffer(Val(BestOf(side)))
                    \cap MethodsOfList(payment_methods) # {}

\* the largest amount an offer takes: its dynamic maximum when the
\* marketplace gives one, its declared maximum otherwise
CapacityMax(offer) ==
    IF Len(offer.dynamicMaxSingleTransAmount) = 1
    THEN offer.dynamicMaxSingleTransAmount[1]
    ELSE offer.maxSingleTransAmount

\* C14 as stated: for a desired amount A > 0 filter_by_amount keeps exactly
\* the offers whose declared range [min, max] holds A, bounds included; for
\* A <= 0 it returns its input.
C14_KeepsExactlyDeclaredRange ==
    filter_call.pass = "amount" =>
        LET A == filter_call.amount
            InRangeOf(offer) == /\ offer.minSingleTransAmount <= A
                                /\ A <= offer.maxSingleTransAmount
        IN  IF A > 0 THEN filter_call.result = Kept(filter_call.offers, InRangeOf)
            ELSE filter_call.result = filter_call.offers

\* C14 amended: for a desired amount A > 0 filter_by_amount keeps exactly
\* the offers of positive price with min <= A <= max, bounds included, where
\* max is the dynamic maximum when the offer has one and the declared maximum
\* otherwise; for A <= 0 it returns its input.
C14_KeepsExactlyEffectiveRange ==
    filter_call.pass = "amount" =>
        LET A == filter_call.amount
            Takes(offer) == /\ offer.price > 0
                            /\ offer.minSingleTransAmount <= A
                            /\ A <= CapacityMax(offer)
        IN  IF A > 0 THEN filter_call.result = Kept(filter_call.offers, Takes)
            ELSE filter_call.result = filter_call.offers

\* C14 witness: for the amount 60000 the range [50000, 55000] is dropped,
\* [40000, 70000] and [40000, 60000] are kept
C14_Witness ==
    /\ filter_call.pass = "amount"
    /\ filter_call.amount = 60000
    /\ filter_call.offers = <<RangeOffer("bob", 1, 50000, 55000),
                              RangeOffer("ana", 1, 40000, 70000),
                              RangeOffer("dan", 1, 40000, 60000)>>
    /\ filter_call.result = <<RangeOffer("ana", 1, 40000, 70000),
                              RangeOffer("dan", 1, 40000, 60000)>>

\* C15 as stated: for every desired amount, no offer with a non-positive
\* maximum capacity is left by the amount pass.
C15_NonPositiveMaxDropped ==
    filter_call.pass = "amount" =>
        \A i \in 1..Len(filter_call.result) :
            CapacityMax(filter_call.result[i]) > 0

\* C15 amended: for every desired amount greater than 0, no offer with a
\* non-positive maximum capacity is left by the amount pass, and the offers
\* it leaves are offers of its input.
C15_NonPositiveMaxDroppedForAmount ==
    (filter_call.pass = "amount" /\ filter_call.amount > 0) =>
        \A i \in 1..Len(filter_call.result) :
            /\ CapacityMax(filter_call.result[i]) > 0
            /\ \E j \in 1..Len(filter_call.offers) :
                  filter_call.offers[j] = filter_call.result[i]

\* C15 witness: for the amount 60000 the offers with maximum 0, with maximum
\* -1 and with dynamic maximum 0 are all dropped
C15_Witness ==
    /\ filter_call.pass = "amount"
    /\ filter_call.amount = 60000
    /\ filter_call.offers =
          <<RangeOffer("fay", 1, 0, 0), RangeOffer("gus", 1, -10, -1),
            WithDynamicMax(RangeOffer("kim", 1, 40000, 70000), 0)>>
    /\ filter_call.result = <<>>

\* C16: a cycle in which both marketplace calls succeeded and no offer
\* survived the filters on either side is not counted as a failure: it
\* leaves consecutive_failures as it was.
C16_NoDataIsNotAFailure ==
    [][(pc = "process" /\ outcome = "no_offers")
       => consecutive_failures' = consecutive_failures]_vars

\* the raw list of a side after the first pass, the first two passes and
\* the three passes of the pipeline
AfterPasses(side) ==
    LET a == filter_promoted(RawOf(side))
        b == filter_by_exclude_methods(a, exclude_methods)
        c == filter_by_amount(b, min_amount)
    IN  [promoted |-> a, exclude |-> b, amount |-> c]

\* C17: get_current_prices run again on the same two responses selects the
\* same offers and returns the same prices by the same path, and each filter
\* pass returns its own output unchanged.
C17_PipelineIdempotent ==
    /\ pc = "replayed" =>
          /\ replay.best_buy_offer = best_buy_offer
          /\ replay.best_sell_offer = best_sell_offer
          /\ replay.buy = buy_price
          /\ replay.sell = sell_price
          /\ replay.outcome = outcome
    /\ (pc = "replayed" /\ buy_data.status = "ok" /\ sell_data.status = "ok") =>
          \A side \in Sides :
              LET out == AfterPasses(side)
              IN  /\ filter_promoted(out.promoted) = out.promoted
                  /\ filter_by_exclude_methods(out.exclude, exclude_methods)
                     = out.exclude
                  /\ filter_by_payment_methods(
                         filter_by_payment_methods(out.promoted, <<Banesco>>),
                         <<Banesco>>)
                     = filter_by_payment_methods(out.promoted, <<Banesco>>)
                  /\ filter_by_amount(out.amount, min_amount) = out.amount

\* C17 witness: the responses were run through the pipeline twice; on the BUY
\* side two offers with the denied method stand before the selected one
C17_Witness ==
    /\ pc = "replayed"
    /\ outcome = "ok"
    /\ exclude_methods = <<RecargaPines>>
    /\ Len(buy_data.data) = 3
    /\ buy_data.data[1].nickName = "dan"
    /\ buy_data.data[2].nickName = "dan"
    /\ best_buy_offer = Some(buy_data.data[3])
    /\ replay.best_buy_offer = Some(buy_data.data[3])


----------------------------------------------------------------------------
(* The price history *)

\* the n newest entries of a history, oldest first
MostRecent(history, n) ==
    IF Len(history) <= n THEN history
    ELSE [i \in 1..n |-> history[Len(history) - n + i]]

\* a step in which record_price was called
RecordStep == recorded' = recorded + 1

\* C18: the history never holds more than max_history entries; a call of
\* record_price puts the reading taken now at the tail and leaves exactly the
\* max_history newest entries, oldest first, so that only the oldest entry
\* is evicted when the cap is passed; while the program runs nothing else
\* takes an entry out of the history, the passing of time included.
C18_HistoryCappedFifo ==
    /\ [](Len(price_history) <= max_history)
    /\ [][/\ RecordStep =>
                IF max_history = 0 THEN price_history' = <<>>
                ELSE /\ price_history' # <<>>
                     /\ LET newest == price_history'[Len(price_history')]
                        IN  /\ newest.timestamp = now
                            /\ price_history' =
                                   MostRecent(Append(price_history, newest),
                                              max_history)
          /\ ~RecordStep /\ ~LoadHistory => price_history' = price_history]_vars

\* seven readings, 30 seconds apart, went into a history capped at two, and
\* the two newest are left
C18_Witness ==
    /\ max_history = 2
    /\ recorded = max_history + 5
    /\ now = 180
    /\ Len(price_history) = 2
    /\ price_history[1].timestamp = 150
    /\ price_history[2].timestamp = 180

\* C19: the timestamps of the history never decrease from the oldest entry
\* to the newest, also when the history was loaded from a file written by
\* save_history and record_price was called afterwards.
C19_HistoryOrderedByTime ==
    \A i, j \in 1..Len(price_history) :
        i < j => price_history[i].timestamp <= price_history[j].timestamp

\* one reading was recorded since the start, behind a reading loaded from
\* the file
C19_Witness ==
    /\ history_file # None
    /\ recorded = 1
    /\ Len(price_history) = 2
    /\ Val(history_file) # <<>>
    /\ price_history[1] = Val(history_file)[Len(Val(history_file))]
    /\ price_history[1].timestamp < price_history[2].timestamp

\* seconds between an entry and the time minutes_ago before now
Away(entry, minutes_ago) ==
    LET target == now - 60 * minutes_ago
    IN  IF entry.timestamp >= target THEN entry.timestamp - target
        ELSE target - entry.timestamp

\* C20: get_price_at_time returns no price when the history is empty, and
\* when every entry, hence the closest one, is more than 120 seconds away
\* from the time minutes_ago before now.
C20_NothingBeyondTwoMinutes ==
    lookup.called =>
        /\ price_history = <<>> => lookup.result = None
        /\ (\A i \in 1..Len(price_history) :
                Away(price_history[i], lookup.minutes_ago) > 120)
           => lookup.result = None

\* a lookup whose closest entry is 150 seconds away from the target
C20_Witness ==
    /\ lookup.called
    /\ lookup.result = None
    /\ price_history # <<>>
    /\ \A i \in 1..Len(price_history) :
           Away(price_history[i], lookup.minutes_ago) >= 150
    /\ \E i \in 1..Len(price_history) :
           Away(price_history[i], lookup.minutes_ago) = 150


\* seconds between the time minutes_ago before now and the entry closest to
\* it; the history is not empty
ClosestAway(minutes_ago) ==
    LET away == {Away(price_history[i], minutes_ago) :
                     i \in 1..Len(price_history)}
    IN  CHOOSE d \in away : \A e \in away : d <= e

\* C21: when the entry closest to the time minutes_ago before now is at most
\* 120 seconds away from it, get_price_at_time returns the prices of a
\* closest entry; it returns no price only when the closest entry is more
\* than 120 seconds away.
C21_ClosestWithinWindowReturned ==
    (lookup.called /\ price_history # <<>>) =>
        LET d == ClosestAway(lookup.minutes_ago)
        IN  /\ d <= 120 =>
                /\ lookup.result # None
                /\ \E i \in 1..Len(price_history) :
                      /\ Away(price_history[i], lookup.minutes_ago) = d
                      /\ Val(lookup.result) = [buy |-> price_history[i].buy,
                                               sell |-> price_history[i].sell]
            /\ lookup.result = None => d > 120


----------------------------------------------------------------------------
(* Windowed changes *)

\* the minutes of the three windows
WindowMinutes == [w \in {"15m", "30m", "1h"} |->
                     IF w = "15m" THEN 15 ELSE IF w = "30m" THEN 30 ELSE 60]

\* a historical price that is present and not zero
Usable(price) == price # None /\ price # Some(0)

\* the entries calculate_changes reported for a window
ReportedFor(w) ==
    { i \in 1..Len(period_changes.result) : period_changes.result[i].period = w }

\* the fraction num / den is ((current - old) / old) * 100
IsPercentChange(change, current, old) ==
    /\ change.den # 0
    /\ old # 0
    /\ change.num * old = (current - old) * 100 * change.den

\* C22: calculate_changes reports a window exactly when get_price_at_time
\* yields for it a pair whose buy and sell are both present and not zero;
\* the reported changes are ((current - old) / old) * 100 of each side; a
\* window without such a pair is absent from the result; no division by a
\* zero or missing price is attempted.
C22_WindowReportedIffMatched ==
    period_changes.called =>
        /\ ~period_changes.raised
        /\ \A w \in DOMAIN WindowMinutes :
              LET old == get_price_at_time(price_history, now, WindowMinutes[w])
                  matched == old # None /\ Usable(Val(old).buy)
                                        /\ Usable(Val(old).sell)
              IN  /\ matched => Cardinality(ReportedFor(w)) = 1
                  /\ ~matched => ReportedFor(w) = {}
                  /\ \A i \in ReportedFor(w) :
                        LET e == period_changes.result[i]
                        IN  /\ e.buy_old = Val(Val(old).buy)
                            /\ e.sell_old = Val(Val(old).sell)
                            /\ IsPercentChange(e.buy_change,
                                   period_changes.current_buy, e.buy_old)
                            /\ IsPercentChange(e.sell_change,
                                   period_changes.current_sell, e.sell_old)

\* the 15-minute window is reported with a 10 % rise of the buy price; the
\* 30-minute window found a pair with a zero buy and a null sell price and
\* is absent
C22_Witness ==
    /\ period_changes.called
    /\ Len(period_changes.result) = 1
    /\ period_changes.result[1].period = "15m"
    /\ period_changes.result[1].buy_change.num = 10 * period_changes.result[1].buy_change.den
    /\ LET old30 == get_price_at_time(price_history, now, 30)
       IN  old30 # None /\ Val(old30).buy = Some(0) /\ Val(old30).sell = None


----------------------------------------------------------------------------
(* The tracking loop *)

\* the response of the fetch of a side
DataOf(side) == IF side = "BUY" THEN buy_data ELSE sell_data

OtherSide(side) == IF side = "BUY" THEN "SELL" ELSE "BUY"

\* C23: when exactly one of the two fetches of a cycle fails, the side whose
\* fetch succeeded with a surviving offer still yields its price, and the
\* cycle is not handled as a "no offers" cycle.
C23_FetchesFailIndependently ==
    pc = "process" =>
        \A side \in Sides :
            ( /\ DataOf(OtherSide(side)).status = "failed"
              /\ DataOf(side).status = "ok"
              /\ SurvivorsAt(side) # {} )
            => CurrentOf(side) # None


\* the cycle that ends obtained no price at all
NoPriceCycle == buy_price = None /\ sell_price = None

\* the smaller of 300 and 10 * f
CappedWait(f) == IF 10 * f <= 300 THEN 10 * f ELSE 300

\* C24: consecutive_failures is the number of no-price cycles since the last
\* cycle that obtained prices: a no-price cycle adds exactly 1 to it and any
\* other cycle sets it to 0; after an increment to f the loop sleeps
\* min(300, 10 * f) seconds more, before the cadence sleep, exactly when
\* f > 5.
C24_CounterCountsNoPriceCycles ==
    [][CycleStep =>
          IF NoPriceCycle
          THEN /\ consecutive_failures' = consecutive_failures + 1
               /\ slept' = IF consecutive_failures' > 5
                           THEN <<CappedWait(consecutive_failures'), check_interval>>
                           ELSE <<check_interval>>
          ELSE /\ consecutive_failures' = 0
               /\ slept' = <<check_interval>>]_vars

----------------------------------------------------------------------------
(* The run of the tracker *)

\* the step in which the iteration handles the prices it obtained
ProcessedCycle == pc = "process" /\ pc' # "process"

BothSides == buy_price # None /\ sell_price # None

OneSide == (buy_price = None) # (sell_price = None)

\* C25: an observation is appended to the price history in a cycle exactly
\* when both sides produced a price; a cycle with one side only leaves the
\* history unchanged and still calls the status display with the available
\* price; every recorded entry has both prices present and strictly positive.
C25_HistoryOnlyFromBothSides ==
    /\ [](\A i \in DOMAIN price_history :
             /\ price_history[i].buy # None /\ Val(price_history[i].buy) > 0
             /\ price_history[i].sell # None /\ Val(price_history[i].sell) > 0)
    /\ [][/\ price_history' # price_history => ProcessedCycle /\ BothSides
          /\ ProcessedCycle /\ BothSides =>
                price_history' = Append(price_history,
                                        [timestamp |-> now, buy |-> buy_price,
                                         sell |-> sell_price])
          /\ ProcessedCycle /\ OneSide =>
                /\ price_history' = price_history
                /\ displayed' = [kind |-> "status", buy_price |-> buy_price,
                                 sell_price |-> sell_price]]_vars

\* an observation was recorded, and the latest cycle displayed a SELL price
\* alone without recording
C25_Witness ==
    /\ pc = "sleep"
    /\ Len(price_history) = 1
    /\ displayed = [kind |-> "status", buy_price |-> None,
                    sell_price |-> Some(6500)]

\* a cycle with both prices was processed to its end
SuccessfulIteration == ProcessedCycle /\ BothSides /\ pc' = "sleep"

\* C26: the k-th successful iteration, counting only the iterations in which
\* prices were obtained and processed, calls save_history exactly when k is
\* a multiple of 10, whatever failed iterations lie in between.
C26_SaveEveryTenthSuccess ==
    [][SuccessfulIteration =>
          ((save_calls' # save_calls) <=> (Len(price_history') % 10 = 0))]_vars

\* positions of the loop thread inside an iteration
InIteration == pc \in {"request", "rank", "process"}

ShutdownSaves == { i \in DOMAIN save_calls : save_calls[i].by = "_shutdown" }

\* C27: once a shutdown signal has set the stop flag, the loop starts no new
\* iteration, the iteration in progress runs to completion (the loop is left
\* only at its test, or by an exception), the history is flushed exactly
\* once after it, and run() eventually returns.
C27_StopsAfterSignal ==
    /\ [][~running => /\ iteration' = iteration
                      /\ pc' = "request" => pc = "request"]_vars
    /\ [][InIteration /\ ~fatal_error' => pc' \in {"request", "rank",
                                                  "process", "sleep"}]_vars
    /\ [][/\ ~running /\ ~InIteration /\ save_calls' # save_calls
             => /\ pc = "shutdown" /\ pc' = "returned"
                /\ save_calls' = Append(save_calls,
                                        [by |-> "_shutdown",
                                         iteration |-> iteration,
                                         ok |-> save_calls'[Len(save_calls')].ok])
          /\ pc # "returned"]_vars
    /\ [](pc = "returned" => /\ Cardinality(ShutdownSaves) = 1
                             /\ save_calls[Len(save_calls)].by = "_shutdown")
    /\ (~running ~> pc = "returned")

\* run() has returned after a signal that arrived during the second
\* iteration, and the shutdown wrote the two observations
C27_Witness ==
    /\ pc = "returned" /\ ~running /\ ~fatal_error
    /\ iteration = 2
    /\ Len(price_history) = 2
    /\ save_calls = <<[by |-> "_shutdown", iteration |-> 2, ok |-> TRUE]>>
    /\ history_file = Some(price_history)

\* the history and the two baselines
SharedState == <<price_history, telegram_buy_baseline, telegram_sell_baseline>>

SignalArrives == running /\ ~running'

\* C28: a shutdown signal inside an iteration never leaves the shared state
\* partially updated. The signal changes the stop flag and nothing else, the
\* loop thread goes on from the position and the data it had; the history
\* and the baselines are written only by the processing step, which follows
\* the return of both fetches and the ranking; and what that step writes is
\* the result of processing the iteration's prices whether the flag is up or
\* down, so the state after the loop stops is the one of a run whose signal
\* arrived just after the iteration.
C28_SignalLeavesIterationWhole ==
    [][/\ SignalArrives =>
             UNCHANGED <<pc, SharedState, buy_data, sell_data, buy_price,
                         sell_price, best_buy_offer, best_sell_offer,
                         alerts_log, history_file, save_calls, iteration,
                         consecutive_failures, fatal_error>>
       /\ SharedState' # SharedState => ProcessedCycle
       /\ pc' = "process" /\ pc # "process" => pc = "rank"
       /\ pc' = "rank" /\ pc # "rank" =>
             /\ pc = "request"
             /\ buy_data' \in RunBuyResponses
             /\ sell_data' \in RunSellResponses
       /\ ProcessedCycle =>
             LET r == _process_prices(buy_price, sell_price,
                                      telegram_buy_baseline,
                                      telegram_sell_baseline, best_buy_offer,
                                      best_sell_offer, sudden_change_threshold,
                                      alerts_log)
             IN  SharedState' =
                    <<IF BothSides
                      THEN Append(price_history,
                                  [timestamp |-> now, buy |-> buy_price,
                                   sell |-> sell_price])
                      ELSE price_history,
                      r.buy_baseline, r.sell_baseline>>]_vars

\* the flag went down during an iteration, and the iteration recorded its
\* observation and set the baselines before the loop reached its sleep
C28_Witness ==
    /\ ~running /\ pc = "sleep"
    /\ displayed = [kind |-> "status", buy_price |-> Some(6900),
                    sell_price |-> Some(6500)]
    /\ Len(price_history) = iteration
    /\ iteration = 2
    /\ telegram_buy_baseline = Some(6900)
    /\ telegram_sell_baseline = Some(6500)

\* C29: no single bad cycle ends the tracking loop: whatever the fetches
\* returned and whatever the offers hold, the iteration is followed by the
\* cadence sleep and the next loop test, and the loop is left only at its
\* test with the stop flag down.
C29_LoopSurvivesBadCycle ==
    [][/\ ProcessedCycle => pc' = "sleep"
       /\ pc' = "shutdown" /\ pc # "shutdown" => pc = "fetch" /\ ~running]_vars

LastSave == save_calls[Len(save_calls)]

\* C30: whenever run() exits, by a shutdown signal or by an error raised
\* inside an iteration, save_history is attempted exactly once after the
\* last iteration and before the return, on the whole history; the attempt
\* is followed by the return whether the write succeeded or failed.
C30_FinalFlushOnEveryExit ==
    /\ [](pc = "returned" =>
             /\ Cardinality(ShutdownSaves) = 1
             /\ LastSave = [by |-> "_shutdown", iteration |-> iteration,
                            ok |-> LastSave.ok]
             /\ LastSave.ok => history_file = <<price_history>>)
    /\ [][/\ pc' = "returned" /\ pc # "returned" =>
                /\ pc = "shutdown"
                /\ Len(save_calls') = Len(save_calls) + 1
          /\ pc = "shutdown" =>
                /\ pc' \in {"shutdown", "returned"}
                /\ iteration' = iteration
                /\ price_history' = price_history
          /\ pc = "shutdown" /\ save_calls' # save_calls =>
                /\ pc' = "returned"
                /\ ~save_calls'[Len(save_calls')].ok =>
                      history_file' = history_file]_vars

\* an error raised in the first iteration ended the loop with the stop flag
\* up, the final write of the one observation failed, and run() returned
C30_Witness ==
    /\ pc = "returned" /\ fatal_error /\ running
    /\ Len(price_history) = 1
    /\ save_calls = <<[by |-> "_shutdown", iteration |-> 1, ok |-> FALSE]>>
    /\ history_file = None

----------------------------------------------------------------------------
(* Faults *)

\* the price of the offer a fetch returned, if it returned one
OfferedPrice(data) ==
    IF data.status = "ok" /\ data.data # <<>> THEN <<data.data[1].price>>
    ELSE <<>>

NonPositive(data) == OfferedPrice(data) # <<>> /\ OfferedPrice(data)[1] <= 0

\* one of the two offered prices is more than twice the other
WideSpread ==
    /\ OfferedPrice(buy_data) # <<>> /\ OfferedPrice(sell_data) # <<>>
    /\ OfferedPrice(buy_data)[1] > 0 /\ OfferedPrice(sell_data)[1] > 0
    /\ \/ OfferedPrice(buy_data)[1] > 2 * OfferedPrice(sell_data)[1]
       \/ OfferedPrice(sell_data)[1] > 2 * OfferedPrice(buy_data)[1]

\* C31: a data fault makes the affected side absent for the cycle: a side
\* whose best price is non-positive, and both sides of a spread in which one
\* price is more than twice the other, are not returned by
\* get_current_prices, are not recorded and are not evaluated against the
\* baselines, and no exception escapes.
C31_DataFaultMakesSideAbsent ==
    [][/\ pc = "rank" /\ pc' = "process" =>
             /\ NonPositive(buy_data) \/ WideSpread => buy_price' = None
             /\ NonPositive(sell_data) \/ WideSpread => sell_price' = None
       /\ /\ ProcessedCycle
          /\ NonPositive(buy_data) \/ NonPositive(sell_data) \/ WideSpread
          => /\ UNCHANGED SharedState
             /\ ~fatal_error']_vars

----------------------------------------------------------------------------
(* Startup *)

\* main() has let the configuration through to the construction and the
\* start of the tracker
PassedStartup == main_pc \in {"construct", "tracking"}

NotifierUsable(c) ==
    c.telegram_enabled => c.telegram_bot_token # "" /\ c.telegram_chat_id # ""

C33_IntervalBelowTenRejected ==
    args.interval # <<>> /\ args.interval[1] < 10 =>
        /\ ~PassedStartup
        /\ main_pc = "exited" => exit_code # <<>> /\ exit_code[1] # 0


----------------------------------------------------------------------------
(* The history file *)

\* the history file is absent or a JSON document written to its end
WholeDocument == target_file = None \/ Val(target_file).complete

\* a step of the process changes the history file
TargetChanges == target_file' # target_file

\* the document save_history writes for the deque it was called with
NewSnapshot == FileOf(save_data, Len(price_history), TRUE)

\* C34: at every step of a save, a write error or a crash included, the
\* history file is a whole document: it keeps the previous snapshot until
\* the rename, which puts the whole new snapshot in its place, and a save
\* that fails or dies before the rename leaves the file as it was
C34_SaveIsAtomic ==
    /\ []WholeDocument
    /\ [][TargetChanges =>
            /\ disk_pc = "replace"
            /\ save_data.history = HistoryData(price_history)
            /\ target_file' = NewSnapshot]_vars

\* a process died while json.dump was writing the second snapshot: the
\* temporary file holds a part of it and the history file the first one
C34_Witness ==
    /\ disk_pc = "dead"
    /\ temp_file # None
    /\ ~Val(temp_file).complete
    /\ Len(Val(temp_file).history) = 1
    /\ Len(save_data.history) = 2
    /\ target_file # None
    /\ Val(target_file).history # save_data.history


\* a new process loads the history file
Loads == disk_pc = "dead" /\ disk_pc' = "idle"

\* the history file is the last save of the history in memory: nothing was
\* recorded after it
SavedAsIs ==
    /\ target_file # None
    /\ Val(target_file).history = HistoryData(price_history)

\* the load happens less than 24 hours after that save, into a deque that
\* can hold the saved history
LoadedSoon ==
    /\ now - Val(target_file).last_updated < 86400
    /\ Len(price_history) <= max_history'

\* a step inside save_history
InSave == disk_pc \in {"open", "dump", "replace"} \/ disk_pc' = "open"

\* the entries of a history that are less than 24 hours old at the given time
Recent(history, time) ==
    SelectSeq(history, LAMBDA e : time - e.timestamp < 86400)

\* C36 as stated: a load less than 24 hours after the save restores the
\* whole saved history, entry by entry and in order
C36_RoundTripRestoresAll ==
    [][Loads /\ SavedAsIs /\ LoadedSoon => price_history' = price_history]_vars

\* C36: a load after a save, with nothing written in between and into a
\* deque that can hold the saved history, restores exactly the saved entries
\* that are less than 24 hours old at load time, equal entry by entry and in
\* the saved order (all of them when the oldest is younger than 24 hours),
\* and save_history leaves the history in memory unchanged
C36_RoundTripRestoresRecent ==
    /\ [][Loads /\ SavedAsIs /\ Len(price_history) <= max_history' =>
            /\ price_history' = Recent(price_history, now)
            /\ ~load_raised']_vars
    /\ [][InSave => price_history' = price_history]_vars

\* a history of two different entries, saved and loaded 12 hours later by a
\* new process, is back in memory as it was
C36_Witness ==
    /\ disk_pc = "idle"
    /\ Len(price_history) = 2
    /\ price_history[1] # price_history[2]
    /\ target_file # None
    /\ Val(target_file).history = HistoryData(price_history)
    /\ now = Val(target_file).last_updated + 43200
    /\ save_data = NoData
    /\ ~load_raised


\* an element of the history array that is an entry as save_history writes
\* it: an object with an ISO timestamp and two numeric prices
WellFormed(e) ==
    /\ e.kind = "object"
    /\ e.timestamp # <<>> /\ e.timestamp[1].kind = "iso"
    /\ e.buy # <<>> /\ e.buy[1].kind = "number"
    /\ e.sell # <<>> /\ e.sell[1].kind = "number"

\* the well-formed entries of the file that are not older than 24 hours at
\* the given time, in file order
Loadable(entries, time) ==
    SelectSeq(entries,
              LAMBDA e : WellFormed(e) /\ time - e.timestamp[1].val <= 86400)

\* the history entry of a well-formed element
AsReading(e) ==
    [timestamp |-> e.timestamp[1].val, buy |-> <<e.buy[1].val>>,
     sell |-> <<e.sell[1].val>>]

\* the last n elements of a sequence
LastOf(s, n) == IF Len(s) > n THEN SubSeq(s, Len(s) - n + 1, Len(s)) ELSE s

\* C35: after load_history the history in memory consists of exactly the
\* well-formed entries of the file that are not older than 24 hours, in file
\* order, the most recent max_history of them; malformed elements of any
\* kind are skipped and do not keep later entries from being loaded
C35_LoadsExactlyValidRecent ==
    [][Loads /\ target_file # None =>
         price_history' =
             LastOf([ i \in 1..Len(Loadable(Val(target_file).history, now)) |->
                        AsReading(Loadable(Val(target_file).history, now)[i]) ],
                    max_history')]_vars


----------------------------------------------------------------------------
(* The alert service, its notifier and the test's reference model *)

\* the decisions of a call: side, old and new price of each alert, in order
Decisions(alerts) ==
    [ i \in 1..Len(alerts) |->
        <<alerts[i].type, alerts[i].old_price, alerts[i].new_price>> ]

\* C37: on every sequence of observations with both prices present and the
\* same threshold, check_sudden_change and MockPriceTracker.check_alert
\* alert for the same sides with the same old and new prices at every step,
\* and hold the same two baselines after every step
C37_EngineRefinesMock ==
    /\ mock.buy_baseline = telegram_buy_baseline
    /\ mock.sell_baseline = telegram_sell_baseline
    /\ Decisions(mock.alerts) = Decisions(sudden_changes)
    /\ ~fatal_error

\* with threshold 5 and both baselines at 100, the observation (0, 110) made
\* both engines alert for SELL alone and keep the BUY baseline
C37_Witness ==
    /\ pc = "fetch"
    /\ sudden_change_threshold = 5
    /\ buy_price = <<0>> /\ sell_price = <<110>>
    /\ Decisions(mock.alerts) = << <<"SELL", 100, 110>> >>
    /\ Decisions(sudden_changes) = << <<"SELL", 100, 110>> >>
    /\ mock.buy_baseline = <<100>>
    /\ telegram_sell_baseline = <<110>>


\* the calls of one kind, for one kind of message, made by the last call of
\* the alert service
CallsOf(calls, op, kind) ==
    SelectSeq(calls, LAMBDA c : c.op = op /\ c.kind = kind)

\* the call of check_sudden_change alerts for the side
Fires(side) == OfSide(sudden_changes', side) # <<>>

\* the notifier returned no handle for the alert of the side
SendFailed(side) ==
    /\ CallsOf(client_calls', "send", side) # <<>>
    /\ CallsOf(client_calls', "send", side)[1].message_id = <<>>

\* the baseline the side is compared with: the stored one, or the current
\* price on the first observation
ComparedWith(side) ==
    IF BaselineOf(side) = <<>> THEN CurrentOf(side) ELSE BaselineOf(side)

\* C38: an alert resets the baseline of its side to the current price
\* whether or not the notifier delivers the message; an alert is sent once,
\* in the cycle that detects it, and never again in a later cycle; and every
\* alert, also the one after an undelivered alert, needs a move of the full
\* threshold from the baseline held when the price is observed
C38_ResetIgnoresDelivery ==
    [][EngineStep =>
        \A side \in Sides :
            /\ Fires(side) => BaselineOf(side)' = CurrentOf(side)
            /\ Len(CallsOf(client_calls', "send", side))
                 = (IF Fires(side) THEN 1 ELSE 0)
            /\ Fires(side) =>
                 MovedAtLeast(CurrentOf(side)[1], ComparedWith(side)[1],
                              sudden_change_threshold)
            /\ ~Fires(side) => BaselineOf(side)' = ComparedWith(side)]_vars

\* with threshold 5: a BUY alert went undelivered, its baseline was reset
\* all the same, and a later full move from that baseline alerted again and
\* was delivered as the first BUY message of the chat
C38_Witness ==
    /\ pc = "fetch"
    /\ sudden_change_threshold = 5
    /\ Len(OfSide(alerts_log, "BUY")) = 2
    /\ OfSide(alerts_log, "BUY")[2].old_price = OfSide(alerts_log, "BUY")[1].new_price
    /\ Len(SelectSeq(chat, LAMBDA m : m.kind = "BUY")) = 1
    /\ CallsOf(client_calls, "send", "BUY") # <<>>
    /\ CallsOf(client_calls, "send", "BUY")[1].message_id # <<>>
    /\ CallsOf(client_calls, "delete", "BUY") = <<>>
    /\ telegram_buy_baseline = buy_price


\* the stored handle of the last alert of a side
HandleOf(side) ==
    IF side = "BUY" THEN last_buy_alert_message_id
    ELSE last_sell_alert_message_id

\* the alert messages of a side that are in the chat and not deleted
Undeleted(side) ==
    { i \in 1..Len(chat) : chat[i].kind = side /\ ~chat[i].deleted }

\* every deletion requested so far was carried out
DeletionsCarriedOut ==
    \A i \in 1..Len(chat) : chat[i].delete_requested => chat[i].deleted

\* the client calls send_alerts makes for a side that has changes: the
\* deletion of the stored message, if there is one, then the send
DeleteThenSend(side) ==
    /\ Len(CallsOf(client_calls', "send", side)) = 1
    /\ CallsOf(client_calls', "delete", side)
         = (IF HandleOf(side) = <<>> THEN <<>>
            ELSE << [op |-> "delete", kind |-> side,
                     message_id |-> HandleOf(side)] >>)
    /\ SelectSeq(client_calls', LAMBDA c : c.kind = side)
         = CallsOf(client_calls', "delete", side)
             \o CallsOf(client_calls', "send", side)

\* C39: for each side send_alerts first requests the deletion of the stored
\* alert message of that side and then sends the new one, and stores the
\* new handle only when the send returned one; a side without changes is
\* not touched, whatever happens to the other side; so, as long as the
\* requested deletions are carried out, the chat never holds more than one
\* undeleted alert message per side, and that one is the stored handle
C39_OneAlertPerSide ==
    /\ [](\A side \in Sides :
            /\ HandleOf(side) # <<>> => chat[HandleOf(side)[1]].kind = side
            /\ DeletionsCarriedOut =>
                 /\ Cardinality(Undeleted(side)) <= 1
                 /\ \A i \in Undeleted(side) : HandleOf(side) = <<i>>)
    /\ [][EngineStep =>
            \A side \in Sides :
                /\ Fires(side) => DeleteThenSend(side)
                /\ Fires(side) =>
                     HandleOf(side)' =
                        (IF SendFailed(side) THEN HandleOf(side)
                         ELSE CallsOf(client_calls', "send", side)[1].message_id)
                /\ ~Fires(side) =>
                     /\ HandleOf(side)' = HandleOf(side)
                     /\ SelectSeq(client_calls', LAMBDA c : c.kind = side) = <<>>
                     /\ \A i \in 1..Len(chat) :
                          chat[i].kind = side => chat'[i] = chat[i]]_vars

\* three BUY alerts: the first was delivered, the second deleted it and
\* went undelivered, the third was delivered; one BUY message is left, the
\* stored one, and a SELL message sent meanwhile is untouched
C39_Witness ==
    /\ pc = "fetch"
    /\ Len(OfSide(alerts_log, "BUY")) = 3
    /\ Len(SelectSeq(chat, LAMBDA m : m.kind = "BUY")) = 2
    /\ DeletionsCarriedOut
    /\ Cardinality(Undeleted("BUY")) = 1
    /\ last_buy_alert_message_id # <<>>
    /\ last_buy_alert_message_id[1] \in Undeleted("BUY")
    /\ Cardinality(Undeleted("SELL")) = 1
    /\ last_sell_alert_message_id # <<>>


\* the step of _process_prices that calls send_regular_update
UpdateStep == pc = "update" /\ pc' = "fetch"

\* the status messages of the chat
StatusMessages == { i \in 1..Len(chat) : chat[i].kind = "update" }

\* C40: while no handle is stored every call of send_regular_update sends a
\* new message, and stores and returns its handle if the send gave one; once
\* a handle is stored every call makes exactly one client call, the edit of
\* that handle, sends nothing and keeps the handle, returning it when the
\* edit succeeded and None when it failed; the stored handle never changes
\* again and the chat holds at most one status message
C40_SingleStatusMessage ==
    /\ [](Cardinality(StatusMessages) <= 1)
    /\ [][last_telegram_message_id # <<>> =>
            last_telegram_message_id' = last_telegram_message_id]_vars
    /\ [][UpdateStep =>
            IF last_telegram_message_id = <<>>
            THEN /\ Len(client_calls') = 1
                 /\ client_calls'[1].op = "send"
                 /\ client_calls'[1].kind = "update"
                 /\ last_telegram_message_id' = client_calls'[1].message_id
                 /\ update_result' = client_calls'[1].message_id
                 /\ IF client_calls'[1].message_id = <<>>
                    THEN chat' = chat
                    ELSE /\ Len(chat') = Len(chat) + 1
                         /\ client_calls'[1].message_id = <<Len(chat')>>
                         /\ chat'[Len(chat')].kind = "update"
            ELSE /\ client_calls' = << [op |-> "edit", kind |-> "update",
                                        message_id |-> last_telegram_message_id] >>
                 /\ chat' = chat
                 /\ update_result' \in {last_telegram_message_id, <<>>}]_vars

\* the status message was sent after an alert message and its handle
\* stored; the edit of the last cycle failed: the call returned None and the
\* handle is still stored
C40_Witness ==
    /\ pc = "fetch"
    /\ last_telegram_message_id # <<>>
    /\ last_telegram_message_id[1] > 1
    /\ StatusMessages = {last_telegram_message_id[1]}
    /\ update_result = <<>>
    /\ Len(client_calls) = 1
    /\ client_calls[1].op = "edit"

====
